---- MODULE Spec2Model ----
(***************************************************************************)
(* A model of the neo-controller firmware: the index resolver, the         *)
(* serial command reader and router, the changer and the timer-gated       *)
(* animator of the class-based controller (src/controller/app.py,          *)
(* classes.py, utils.py), and the earlier module-level controller          *)
(* (src/controller/code.py) whose loop, reader and animator differ.        *)
(*                                                                         *)
(* Optional values (Python's None) are records [some, v]; the outcome of   *)
(* a call that may raise is a record [err, val].                           *)
(***************************************************************************)
EXTENDS Integers, Sequences, FiniteSets, TLC

VARIABLES
  args,       \* inputs of the pure function under check
  ret,        \* its outcome, with the name of the function applied
  build,      \* which controller runs: "app" (app.py) or "code" (code.py)
  clock,      \* ticks_ms(), the monotonic millisecond clock
  pc,         \* position in App.loop: "run" (animator.run) or "read"
  pixels,     \* the NeoPixel buffer: pixel index -> <<r, g, b>>
  brightness, \* pixels.brightness in units of 1/brightness_scale
  selected,   \* Changer.selected: [pixel, hue], each None or an index
  speed,      \* Animator._speed
  anim,       \* Animator.anim (app.py) or the anim dict (code.py)
  lastid,     \* Commander.lastid / Command.lastid
  execid,     \* history: the id of the last command read() returned
  last,       \* what the last step did (observation only)
  sd          \* SdReader, the card in the slot and the files on it

vars == <<args, ret, build, clock, pc, pixels, brightness, selected, speed,
          anim, lastid, execid, last, sd>>

ctlvars == <<build, clock, pc, pixels, brightness, selected, speed, anim,
             lastid, execid, last>>

----------------------------------------------------------------------------
(* Bounds of the model *)

MaxLength == 7      \* largest index-space length drawn for the resolver
MaxQuantity == 16   \* quantities are drawn from -MaxQuantity..MaxQuantity

----------------------------------------------------------------------------
(* Python values *)

None == [some |-> FALSE, v |-> 0]
Some(x) == [some |-> TRUE, v |-> x]

Return(val) == [err |-> "none", val |-> val]
Raise(e) == [err |-> e, val |-> None]

Max(a, b) == IF a >= b THEN a ELSE b
Min(a, b) == IF a <= b THEN a ELSE b

----------------------------------------------------------------------------
(* common.py / utils.py: absindex *)

\* i - length * (i // length) with a division that truncates toward zero
absindex_trunc(i, length) ==
  IF length = 0 THEN Raise("IndexError")
  ELSE Return(Some(i - length * (IF i >= 0 THEN i \div length ELSE -((-i) \div length))))

\* Python's // floors; a zero length raises ZeroDivisionError, re-raised
\* as IndexError
absindex(i, length) ==
  IF length = 0 THEN Raise("IndexError")
  ELSE Return(Some(i - length * (i \div length)))

----------------------------------------------------------------------------
(* The relative branch shared by the three resolvers: the code after      *)
(* `value = current`.                                                     *)

\* the step as applied when there is no current selection, without the
\* decrement of a positive step
first_step_plain(q) == q

\* `if quantity > 0: quantity -= 1` under `if value is None`
first_step(q) == IF q > 0 THEN q - 1 ELSE q

relative_value(verb, quantity, current) ==
  LET q == IF verb = "minus" THEN -quantity ELSE quantity
  IN IF current.some THEN current.v + q ELSE first_step(q)

\* `if 0 <= quantity < length` without the preceding negative adjustment
set_value_noneg(quantity, length) ==
  IF 0 <= quantity /\ quantity < length
    THEN Return(Some(quantity)) ELSE Raise("IndexError")

\* the 'set' branch: a negative quantity counts from the end
set_value(quantity, length) ==
  LET q == IF quantity < 0 THEN quantity + length ELSE quantity
  IN IF 0 <= q /\ q < length THEN Return(Some(q)) ELSE Raise("IndexError")

----------------------------------------------------------------------------
(* src/controller/utils.py: resolve_index_change (no min/max verbs) *)

ctl_resolve_index_change(verb, quantity, current, length, loop) ==
  IF verb = "clear" \/ ~quantity.some THEN Return(None)
  ELSE IF verb = "set" THEN set_value(quantity.v, length)
  ELSE LET value == relative_value(verb, quantity.v, current)
       IN IF loop THEN absindex(value, length)
          ELSE Return(Some(Max(0, Min(value, length - 1))))

(* src/utils.py: resolve_index_change (min and max come first) *)

\* the resolver without its min/max prologue
resolve_index_change_nominmax(verb, quantity, current, length, loop) ==
  ctl_resolve_index_change(verb, quantity, current, length, loop)

resolve_index_change(verb, quantity, current, length, loop) ==
  IF verb = "min" THEN Return(Some(0))
  ELSE IF verb = "max" THEN Return(Some(length - 1))
  ELSE IF verb = "clear" \/ ~quantity.some THEN Return(None)
  ELSE IF verb = "set" THEN set_value(quantity.v, length)
  ELSE LET value == relative_value(verb, quantity.v, current)
       IN IF loop THEN absindex(value, length)
          ELSE Return(Some(Max(0, Min(value, length - 1))))

(* src/controller/code.py: Change.index_resolve (always wraps) *)

index_resolve(verb, quantity, current, length) ==
  IF verb = "clear" \/ ~quantity.some THEN Return(None)
  ELSE IF verb = "set" THEN set_value(quantity.v, length)
  ELSE absindex(relative_value(verb, quantity.v, current), length)

----------------------------------------------------------------------------
(* Settings (src/controller/defaults.py; settings.py overrides them, so    *)
(* the strip length and the speed table are bounds of the model).          *)

num_pixels == 2          \* settings.num_pixels
NumSpeeds == 4           \* len(settings.speeds)
SpeedsStart == 2         \* speeds = range(2, 0x82, 2)
SpeedsStep == 2
brightness_scale == 64   \* 0x40
initial_color == 16777215  \* 0xffffff

initial_brightness == brightness_scale \div 5

\* settings.speeds[i] for 0 <= i < len(speeds)
speeds(i) == SpeedsStart + SpeedsStep * i

MaxTime == 4             \* the clock stops advancing here
Lags == {0, 1}           \* milliseconds one Animation.tick may take

PixelRange == 0..(num_pixels - 1)

----------------------------------------------------------------------------
(* utils.py / rgbutil.py: the colour codec.  A colour is a packed integer  *)
(* or a tuple <<r, g, b>>; the buffer holds tuples.                        *)

\* r = value >> 16; g = (value >> 8) & 0xff; b = value & 0xff
as_tuple(value) ==
  <<value \div 65536, (value \div 256) % 256, value % 256>>

\* an as_int that packs the channels in the order b, g, r
as_int_bgr(t) == (t[3] % 256) * 65536 + (t[2] % 256) * 256 + (t[1] % 256)

\* ((r & 0xff) << 16) + ((g & 0xff) << 8) + (b & 0xff)
as_int(t) == (t[1] % 256) * 65536 + (t[2] % 256) * 256 + (t[3] % 256)

----------------------------------------------------------------------------
(* utils.py: graduate / transition / transitions over a repeated path.     *)

\* Python's round() of the exact quotient n / d (d > 0): half to even
round_div(n, d) ==
  LET q == n \div d
      r == n % d
  IN IF 2 * r < d THEN q
     ELSE IF 2 * r > d THEN q + 1
     ELSE IF q % 2 = 0 THEN q ELSE q + 1

\* a graduate that ends one step short of stop
graduate_short(start, stop, steps, s) ==
  round_div(start * steps + s * (stop - start), steps)

\* the value graduate(start, stop, steps) yields at index s < steps:
\* start, then round(start + step * (diff / steps)) for 1 <= step <=
\* steps - 2, then stop
graduate(start, stop, steps, s) ==
  IF s = 0 THEN start
  ELSE IF s <= steps - 2 THEN round_div(start * steps + s * (stop - start), steps)
  ELSE stop

\* the tuple transition(a, b, steps) yields at index s < steps
transition(a, b, steps, s) ==
  <<graduate(a[1], b[1], steps, s), graduate(a[2], b[2], steps, s),
    graduate(a[3], b[3], steps, s)>>

\* the element at index pos of transitions(repeat(path), steps): the
\* transitions between consecutive keyframes, one after the other
transitions_repeat(path, steps, pos) ==
  LET seg == pos \div steps
      n == Len(path)
  IN transition(path[(seg % n) + 1], path[((seg + 1) % n) + 1], steps, pos % steps)

WheelPath == <<as_tuple(16711680), as_tuple(65280), as_tuple(255)>>
WheelSteps == 256        \* anim_wheel_loop: steps=0x100
MarqueeSteps == 32       \* anim_marquee_loop: steps=0x20
BufSteps == 80           \* anim_buffers_loop: steps=0x50

----------------------------------------------------------------------------
(* classes.py: the animations.  An animation is a record: kind, pos (the   *)
(* number of frames pulled from its producer), interval, at (next due),    *)
(* steps, base (the buffer a marquee was built from) and, for code.py's    *)
(* fill, current (the frame last shown).                                   *)

Black == <<0, 0, 0>>
NoColor == [some |-> FALSE, v |-> Black]
NoBase == [p \in PixelRange |-> Black]
NoAnim == [some |-> FALSE, kind |-> "none", pos |-> 0, interval |-> 0,
           at |-> 0, steps |-> 0, base |-> NoBase, current |-> NoColor]

\* FillAnimation.__init__ then start(): every pixel takes the colour of
\* transitions(repeat(path), steps)
FillAnimation(interval, steps, now) ==
  [some |-> TRUE, kind |-> "fill", pos |-> 0, interval |-> interval,
   at |-> now, steps |-> steps, base |-> NoBase, current |-> NoColor]

\* MarqueeAnimation.__init__ then start(): pixel n runs through buf[n],
\* buf[n + 1], ... cyclically
MarqueeAnimation(buf, interval, steps, now) ==
  [some |-> TRUE, kind |-> "marquee", pos |-> 0, interval |-> interval,
   at |-> now, steps |-> steps, base |-> buf, current |-> NoColor]

\* BufstoreAnimation.__init__ then start(): the producer is a generator
\* that has not run yet; i is the slot readrepeat scans next, b1 and b2
\* the two buffers buffer_transitions holds
BufstoreAnimation(interval, steps, now) ==
  [some |-> TRUE, kind |-> "buffers", pos |-> 0, interval |-> interval,
   at |-> now, steps |-> steps, base |-> NoBase, current |-> NoColor,
   i |-> 0, b1 |-> <<>>, b2 |-> <<>>]

\* next(self.it): the frame the producer yields at its position
Frame(a) ==
  IF a.kind = "marquee"
    THEN [p \in PixelRange |->
            transitions_repeat(
              [i \in 1..num_pixels |-> a.base[(p + i - 1) % num_pixels]],
              a.steps, a.pos)]
    ELSE [p \in PixelRange |-> transitions_repeat(WheelPath, a.steps, a.pos)]

\* ticks_diff(ticks_ms(), at) >= 0, with a comparison turned round
ready_inverted(a, now) == a.some /\ now - a.at <= 0

\* Animation.ready
ready(a, now) == a.some /\ now - a.at >= 0

\* the pixels Animation.tick writes: once one pixel differs, every later
\* pixel of the frame is written too
tick_written(px, frame) ==
  {p \in PixelRange : \E q \in 0..p : px[q] # frame[q]}

\* a tick that shows after every frame
tick_shows_always(px, frame) == 1

\* Animation.tick: pixels.show() once if a pixel changed
tick_shows(px, frame) == IF tick_written(px, frame) # {} THEN 1 ELSE 0

tick_pixels(px, frame) ==
  [p \in PixelRange |-> IF p \in tick_written(px, frame) THEN frame[p] ELSE px[p]]

----------------------------------------------------------------------------
(* terms: the action table (terms.ACTIONS, terms.CODES).  'a'..'y' are     *)
(* the codes of src/terms.py; the                                          *)
(* speed, no-op and routine codes are those the remote sends               *)
(* (src/remote/code.py run_presets), under letters of the model's choice.  *)

actions ==
  [c \in {"a", "b", "c", "d", "e", "f", "g", "h", "i", "j", "k", "l",
          "m", "n", "o", "p", "q", "r", "s", "t", "u", "v", "w", "x",
          "y", "z", "A", "B", "C", "D", "N", "W", "M", "L", "T"} |->
    CASE c = "a" -> <<"brightness", "set">>
      [] c = "b" -> <<"brightness", "plus">>
      [] c = "c" -> <<"brightness", "minus">>
      [] c = "d" -> <<"brightness", "clear">>
      [] c = "e" -> <<"red", "set">>
      [] c = "f" -> <<"red", "plus">>
      [] c = "g" -> <<"red", "minus">>
      [] c = "h" -> <<"red", "clear">>
      [] c = "i" -> <<"green", "set">>
      [] c = "j" -> <<"green", "plus">>
      [] c = "k" -> <<"green", "minus">>
      [] c = "l" -> <<"green", "clear">>
      [] c = "m" -> <<"blue", "set">>
      [] c = "n" -> <<"blue", "plus">>
      [] c = "o" -> <<"blue", "minus">>
      [] c = "p" -> <<"blue", "clear">>
      [] c = "q" -> <<"white", "set">>
      [] c = "r" -> <<"white", "plus">>
      [] c = "s" -> <<"white", "minus">>
      [] c = "t" -> <<"white", "clear">>
      [] c = "u" -> <<"pixel", "set">>
      [] c = "v" -> <<"pixel", "plus">>
      [] c = "w" -> <<"pixel", "minus">>
      [] c = "x" -> <<"pixel", "clear">>
      [] c = "y" -> <<"func_draw", "run">>
      [] c = "z" -> <<"func_save", "run">>
      [] c = "A" -> <<"speed", "set">>
      [] c = "B" -> <<"speed", "plus">>
      [] c = "C" -> <<"speed", "minus">>
      [] c = "D" -> <<"speed", "clear">>
      [] c = "N" -> <<"func_noop", "run">>
      [] c = "W" -> <<"anim_wheel_loop", "run">>
      [] c = "M" -> <<"anim_marquee_loop", "run">>
      [] c = "L" -> <<"anim_buffers_loop", "run">>
      [] c = "T" -> <<"anim_state_loop", "run">>]

\* codes = dict(map(reversed, actions.items())): the valid (what, verb)
CODES == {actions[c] : c \in DOMAIN actions}

----------------------------------------------------------------------------
(* A line on the serial link is a sequence of characters; "NUL" is a zero  *)
(* byte, "BAD" a byte that is not UTF-8, " " white space.                  *)

Digits == {"0", "1", "2", "3", "4", "5", "6", "7", "8", "9"}

DigitVal(c) ==
  CASE c = "0" -> 0 [] c = "1" -> 1 [] c = "2" -> 2 [] c = "3" -> 3
    [] c = "4" -> 4 [] c = "5" -> 5 [] c = "6" -> 6 [] c = "7" -> 7
    [] c = "8" -> 8 [] c = "9" -> 9

RECURSIVE digits_value(_)
digits_value(s) ==
  IF Len(s) = 0 THEN 0
  ELSE 10 * digits_value(SubSeq(s, 1, Len(s) - 1)) + DigitVal(s[Len(s)])

IsDigits(s) == Len(s) > 0 /\ \A i \in 1..Len(s) : s[i] \in Digits

\* int(str): an optional sign and decimal digits, else ValueError
int(s) ==
  IF Len(s) > 0 /\ s[1] \in {"-", "+"}
    THEN IF IsDigits(Tail(s))
           THEN Return(Some(IF s[1] = "-" THEN -digits_value(Tail(s))
                            ELSE digits_value(Tail(s))))
           ELSE Raise("ValueError")
    ELSE IF IsDigits(s) THEN Return(Some(digits_value(s)))
         ELSE Raise("ValueError")

RECURSIVE lstrip(_, _)
lstrip(s, chars) ==
  IF Len(s) > 0 /\ s[1] \in chars THEN lstrip(Tail(s), chars) ELSE s

RECURSIVE rstrip(_, _)
rstrip(s, chars) ==
  IF Len(s) > 0 /\ s[Len(s)] \in chars
    THEN rstrip(SubSeq(s, 1, Len(s) - 1), chars) ELSE s

strip(s, chars) == rstrip(lstrip(s, chars), chars)

NoCmdStr == [some |-> FALSE, v |-> <<>>]
NoId == [some |-> FALSE, v |-> ""]

\* a reader that forgets the id of the line it accepts
read_keep_lastid(line, id) ==
  LET raw == strip(line, {"NUL"})
      text == strip(raw, {" "})
  IN IF Len(line) = 0 THEN [err |-> "none", cmdstr |-> NoCmdStr, lastid |-> id]
     ELSE IF \E i \in 1..Len(raw) : raw[i] = "BAD"
       THEN [err |-> "UnicodeError", cmdstr |-> NoCmdStr, lastid |-> id]
     ELSE IF Len(text) = 0 THEN [err |-> "none", cmdstr |-> NoCmdStr, lastid |-> id]
     ELSE IF id.some /\ text[1] = id.v
       THEN [err |-> "none", cmdstr |-> NoCmdStr, lastid |-> id]
     ELSE [err |-> "none",
           cmdstr |-> IF Len(text) > 1 THEN [some |-> TRUE, v |-> Tail(text)]
                      ELSE NoCmdStr,
           lastid |-> id]

\* Commander.read (classes.py) and Command.read (code.py): the line waiting
\* on the link (<<>>: none), stripped of NULs, decoded, stripped of white
\* space; a first character equal to lastid drops the line, else it is the
\* new lastid and the rest, if any, is the command string
read(line, id) ==
  LET raw == strip(line, {"NUL"})
      text == strip(raw, {" "})
  IN IF Len(line) = 0 THEN [err |-> "none", cmdstr |-> NoCmdStr, lastid |-> id]
     ELSE IF \E i \in 1..Len(raw) : raw[i] = "BAD"
       THEN [err |-> "UnicodeError", cmdstr |-> NoCmdStr, lastid |-> id]
     ELSE IF Len(text) = 0 THEN [err |-> "none", cmdstr |-> NoCmdStr, lastid |-> id]
     ELSE IF id.some /\ text[1] = id.v
       THEN [err |-> "none", cmdstr |-> NoCmdStr, lastid |-> id]
     ELSE [err |-> "none",
           cmdstr |-> IF Len(text) > 1 THEN [some |-> TRUE, v |-> Tail(text)]
                      ELSE NoCmdStr,
           lastid |-> [some |-> TRUE, v |-> text[1]]]

NoCommand == [what |-> "none", verb |-> "none", quantity |-> None]

\* Commander.parse / Command.parse: the action character through the
\* table (KeyError if unknown), the rest through int()
parse(cmdstr) ==
  IF cmdstr[1] \notin DOMAIN actions
    THEN [err |-> "KeyError", cmd |-> NoCommand]
  ELSE LET what == actions[cmdstr[1]][1]
           verb == actions[cmdstr[1]][2]
           q == IF Len(cmdstr) = 1 THEN Return(None) ELSE int(Tail(cmdstr))
       IN IF q.err # "none" THEN [err |-> q.err, cmd |-> NoCommand]
          ELSE [err |-> "none",
                cmd |-> [what |-> what, verb |-> verb, quantity |-> q.val]]

----------------------------------------------------------------------------
(* The state a handler works on, and what it did: shows counts the         *)
(* pixels.show() calls, written the pixels assigned, err the exception     *)
(* that ended it ("none" if it returned).                                  *)

State ==
  [pixels |-> pixels, brightness |-> brightness, selected |-> selected,
   speed |-> speed, anim |-> anim, shows |-> 0, written |-> {},
   err |-> "none"]

Fail(s, e) == [s EXCEPT !.err = e]

----------------------------------------------------------------------------
(* classes.py: Changer *)

\* Changer.prange: the selected pixel, or every pixel
prange(s) ==
  IF s.selected.pixel.some THEN {s.selected.pixel.v} ELSE PixelRange

\* a Changer.pixel that keeps the selected hue
Changer_pixel_keep_hue(s, verb, quantity) ==
  LET r == ctl_resolve_index_change(verb, quantity, s.selected.pixel,
                                    num_pixels, TRUE)
  IN IF r.err # "none" THEN Fail(s, r.err)
     ELSE [s EXCEPT !.selected = [@ EXCEPT !.pixel = r.val]]

\* Changer.pixel
Changer_pixel(s, verb, quantity) ==
  LET r == ctl_resolve_index_change(verb, quantity, s.selected.pixel,
                                    num_pixels, TRUE)
  IN IF r.err # "none" THEN Fail(s, r.err)
     ELSE [s EXCEPT !.selected = [pixel |-> r.val, hue |-> None]]

\* a brightness operation without the clamp
Changer_brightness_noclamp(s, verb, quantity) ==
  IF verb # "clear" /\ ~quantity.some THEN Fail(s, "TypeError")
  ELSE LET new == CASE verb = "clear" -> initial_brightness
                    [] verb = "set" -> quantity.v
                    [] verb = "minus" -> s.brightness - quantity.v
                    [] OTHER -> s.brightness + quantity.v
       IN IF new # s.brightness
            THEN [s EXCEPT !.brightness = new, !.shows = @ + 1]
            ELSE s

\* a brightness operation that shows whether or not the value changed
Changer_brightness_show(s, verb, quantity) ==
  IF verb # "clear" /\ ~quantity.some THEN Fail(s, "TypeError")
  ELSE LET value == CASE verb = "clear" -> initial_brightness
                      [] verb = "set" -> quantity.v
                      [] verb = "minus" -> s.brightness - quantity.v
                      [] OTHER -> s.brightness + quantity.v
       IN [s EXCEPT !.brightness = Max(0, Min(brightness_scale, value)),
                    !.shows = @ + 1]

\* Changer.brightness, in units of 1 / brightness_scale (a power of two,
\* so value / scale * scale is exact)
Changer_brightness(s, verb, quantity) ==
  IF verb # "clear" /\ ~quantity.some THEN Fail(s, "TypeError")
  ELSE LET value == CASE verb = "clear" -> initial_brightness
                      [] verb = "set" -> quantity.v
                      [] verb = "minus" -> s.brightness - quantity.v
                      [] OTHER -> s.brightness + quantity.v
           new == Max(0, Min(brightness_scale, value))
       IN IF new # s.brightness
            THEN [s EXCEPT !.brightness = new, !.shows = @ + 1]
            ELSE s

\* Changer.shade(color, indexes): red, green, blue, white
shade(s, indexes, verb, quantity) ==
  LET q == IF verb = "minus" THEN -quantity.v ELSE quantity.v
      initial == as_tuple(initial_color)
      chan(old, b) ==
        IF b \notin indexes THEN old
        ELSE Max(0, Min(255,
               IF verb = "clear" \/ ~quantity.some THEN initial[b + 1]
               ELSE IF verb = "set" THEN q
               ELSE old + q))
      new(p) == <<chan(s.pixels[p][1], 0), chan(s.pixels[p][2], 1),
                  chan(s.pixels[p][3], 2)>>
      changed == {p \in prange(s) : new(p) # s.pixels[p]}
  IN [s EXCEPT !.pixels = [p \in PixelRange |->
                             IF p \in changed THEN new(p) ELSE s.pixels[p]],
               !.written = changed,
               !.shows = IF changed # {} THEN @ + 1 ELSE @,
               !.selected = [@ EXCEPT !.hue = None]]

ShadeIndexes(what) ==
  CASE what = "red" -> {0} [] what = "green" -> {1} [] what = "blue" -> {2}
    [] what = "white" -> {0, 1, 2}

Changer_whats == {"pixel", "brightness", "red", "green", "blue", "white"}

----------------------------------------------------------------------------
(* classes.py: Animator *)

\* a speed setter that also restarts the running animation
Animator_set_speed_restart(s, value) ==
  LET sp == Max(0, Min(value, NumSpeeds - 1))
  IN [s EXCEPT !.speed = sp,
               !.anim = IF s.anim.some
                          THEN [@ EXCEPT !.interval = speeds(sp), !.pos = 0]
                          ELSE @]

\* a speed setter that wraps instead of clamping
Animator_set_speed_wrap(s, value) ==
  LET sp == value % NumSpeeds
  IN [s EXCEPT !.speed = sp,
               !.anim = IF s.anim.some
                          THEN [@ EXCEPT !.interval = speeds(sp)] ELSE @]

\* Animator.speed (setter): clamp, and pass the interval on to a running
\* animation
Animator_set_speed(s, value) ==
  LET sp == Max(0, Min(value, NumSpeeds - 1))
  IN [s EXCEPT !.speed = sp,
               !.anim = IF s.anim.some
                          THEN [@ EXCEPT !.interval = speeds(sp)] ELSE @]

\* Animator.speed_change: no quantity resets to the middle of the table;
\* else the negated quantity is resolved, clamped, against the table; a
\* result of None (verb clear) makes the setter's min() raise TypeError
Animator_speed_change(s, verb, quantity) ==
  IF ~quantity.some THEN Animator_set_speed(s, NumSpeeds \div 2)
  ELSE LET r == ctl_resolve_index_change(verb, Some(-quantity.v),
                                         Some(s.speed), NumSpeeds, FALSE)
       IN IF r.err # "none" THEN Fail(s, r.err)
          ELSE IF ~r.val.some THEN Fail(s, "TypeError")
          ELSE Animator_set_speed(s, r.val.v)

\* Animator.clear
Animator_clear(s) == [s EXCEPT !.anim = NoAnim]

\* Animator.anim_wheel_loop
anim_wheel_loop(s, now) ==
  [s EXCEPT !.anim = FillAnimation(speeds(s.speed), WheelSteps, now)]

\* Animator.anim_marquee_loop
anim_marquee_loop(s, now) ==
  [s EXCEPT !.anim = MarqueeAnimation(s.pixels, speeds(s.speed),
                                      MarqueeSteps, now)]

\* Animator.anim_buffers_loop without a custom module: nothing is read
\* from the store here
anim_buffers_loop(s, now) ==
  [s EXCEPT !.anim = BufstoreAnimation(speeds(s.speed), BufSteps, now)]

Animator_routines ==
  {"anim_wheel_loop", "anim_buffers_loop", "anim_marquee_loop"}

\* Animator.run -> Animation.run: when ready, tick() pulls one frame and
\* shows it, and at becomes ticks_ms() (sampled again, lag later) plus
\* the interval
Animation_run(s, now, lag) ==
  IF ~ready(s.anim, now) THEN s
  ELSE LET frame == Frame(s.anim)
       IN [s EXCEPT !.pixels = tick_pixels(s.pixels, frame),
                    !.written = tick_written(s.pixels, frame),
                    !.shows = tick_shows(s.pixels, frame),
                    !.anim = [@ EXCEPT !.pos = @ + 1,
                                       !.at = now + lag + s.anim.interval]]

----------------------------------------------------------------------------
(* app.py: App.do *)

\* the whats whose commands leave the animation alone
Preserving == {"brightness", "speed", "func_noop"}

\* a dispatch that clears the animation for every command
do_clear_whats_all(what) == TRUE

\* `if what not in ('brightness', 'speed', 'func_noop')`
do_clear_whats(what) == what \notin Preserving

\* App.do after `if action not in terms.CODES`
App_dispatch(s0, cmd, now) ==
  LET s == IF do_clear_whats(cmd.what) THEN Animator_clear(s0) ELSE s0
  IN CASE cmd.what = "pixel" -> Changer_pixel(s, cmd.verb, cmd.quantity)
       [] cmd.what = "brightness" ->
            Changer_brightness(s, cmd.verb, cmd.quantity)
       [] cmd.what \in {"red", "green", "blue", "white"} ->
            shade(s, ShadeIndexes(cmd.what), cmd.verb, cmd.quantity)
       [] cmd.what = "speed" ->
            Animator_speed_change(s, cmd.verb, cmd.quantity)
       [] cmd.what = "func_draw" /\ cmd.verb = "run" ->
            [s EXCEPT !.shows = @ + 1]
       [] cmd.what = "func_noop" /\ cmd.verb = "run" -> s
       [] cmd.what \in Animator_routines /\ cmd.verb = "run" ->
            LET s1 == IF cmd.quantity.some
                        THEN Animator_set_speed(s, cmd.quantity.v) ELSE s
            IN CASE cmd.what = "anim_wheel_loop" ->
                      anim_wheel_loop(s1, now)
                 [] cmd.what = "anim_buffers_loop" ->
                      anim_buffers_loop(s1, now)
                 [] OTHER -> anim_marquee_loop(s1, now)
       [] OTHER -> Fail(s, "ValueError")

\* a dispatch that clears the animation before it looks the action up
App_do_clear_first(s0, cmd, now) ==
  IF <<cmd.what, cmd.verb>> \notin CODES
    THEN Fail(IF do_clear_whats(cmd.what) THEN Animator_clear(s0) ELSE s0,
              "ValueError")
    ELSE App_dispatch(s0, cmd, now)

App_do(s0, cmd, now) ==
  IF <<cmd.what, cmd.verb>> \notin CODES THEN Fail(s0, "ValueError")
  ELSE App_dispatch(s0, cmd, now)

----------------------------------------------------------------------------
(* code.py: the module-level controller.  Its animation is the dict anim:  *)
(* type 'fill' with the frame last shown in 'current'.                     *)

\* Anim.speeds[speed]: Python indexing, negative indexes from the end
anim_speeds(i) ==
  IF ~i.some THEN Raise("TypeError")
  ELSE IF i.v < -NumSpeeds \/ i.v >= NumSpeeds THEN Raise("IndexError")
  ELSE Return(Some(speeds(IF i.v < 0 THEN i.v + NumSpeeds ELSE i.v)))

\* Anim.anim_wheel_loop(speed): the command's quantity is the speed
Anim_anim_wheel_loop(s, quantity, now) ==
  LET iv == anim_speeds(quantity)
  IN IF iv.err # "none" THEN Fail(s, iv.err)
     ELSE [s EXCEPT !.anim =
             [some |-> TRUE, kind |-> "legacy_fill", pos |-> 0,
              interval |-> iv.val.v, at |-> now,
              steps |-> WheelSteps * (quantity.v + 1),
              base |-> NoBase, current |-> NoColor]]

\* Change.pixel
Change_pixel(s, verb, quantity) ==
  LET r == index_resolve(verb, quantity, s.selected.pixel, num_pixels)
  IN IF r.err # "none" THEN Fail(s, r.err)
     ELSE [s EXCEPT !.selected = [pixel |-> r.val, hue |-> None]]

Change_whats == {"pixel", "brightness", "red", "green", "blue", "white"}
Anim_routines == {"anim_wheel_loop"}

\* Command.do
Command_do(s, cmd, now) ==
  IF <<cmd.what, cmd.verb>> \notin CODES THEN Fail(s, "ValueError")
  ELSE CASE cmd.what = "pixel" -> Change_pixel(s, cmd.verb, cmd.quantity)
         [] cmd.what = "brightness" ->
              Changer_brightness(s, cmd.verb, cmd.quantity)
         [] cmd.what \in {"red", "green", "blue", "white"} ->
              shade(s, ShadeIndexes(cmd.what), cmd.verb, cmd.quantity)
         [] cmd.what = "func_draw" /\ cmd.verb = "run" ->
              [s EXCEPT !.shows = @ + 1]
         [] cmd.what = "func_noop" /\ cmd.verb = "run" -> s
         [] cmd.what \in Anim_routines /\ cmd.verb = "run" ->
              Anim_anim_wheel_loop(s, cmd.quantity, now)
         [] OTHER -> Fail(s, "ValueError")

\* the frame rgbutil.transitions(path, steps, loop=True) yields at pos
legacy_frame(a) == transitions_repeat(WheelPath, a.steps, a.pos)

\* an Anim.run that sets the next due time from the clock
Anim_run_from_clock(s, now) ==
  IF ~(s.anim.some /\ now - s.anim.at >= 0) THEN s
  ELSE IF s.anim.steps < 1 THEN Fail(s, "ValueError")
  ELSE LET value == legacy_frame(s.anim)
           differs == ~s.anim.current.some \/ s.anim.current.v # value
       IN [s EXCEPT !.pixels = IF differs THEN [p \in PixelRange |-> value] ELSE @,
                    !.written = IF differs THEN PixelRange ELSE {},
                    !.shows = IF differs THEN 1 ELSE 0,
                    !.anim = [@ EXCEPT !.pos = @ + 1,
                                       !.current = [some |-> TRUE, v |-> value],
                                       !.at = now + s.anim.interval]]

\* Anim.run with Anim.fill: when due, pull one value, fill and show if it
\* differs from the value last shown, and advance at by the interval; a
\* step count below 1 makes the producer raise ValueError at the pull
Anim_run(s, now) ==
  IF ~(s.anim.some /\ now - s.anim.at >= 0) THEN s
  ELSE IF s.anim.steps < 1 THEN Fail(s, "ValueError")
  ELSE LET value == legacy_frame(s.anim)
           differs == ~s.anim.current.some \/ s.anim.current.v # value
       IN [s EXCEPT !.pixels = IF differs THEN [p \in PixelRange |-> value] ELSE @,
                    !.written = IF differs THEN PixelRange ELSE {},
                    !.shows = IF differs THEN 1 ELSE 0,
                    !.anim = [@ EXCEPT !.pos = @ + 1,
                                       !.current = [some |-> TRUE, v |-> value],
                                       !.at = @ + s.anim.interval]]

----------------------------------------------------------------------------
(* The lines the link may deliver: an id, an action code and a quantity,   *)
(* and lines damaged on the way.                                           *)

Ids == {"0", "1"}

\* what follows the id: an action code and an optional quantity
Bodies ==
  { <<"B", "1">>, <<"C", "1">>, <<"B", "9">>, <<"C", "9">>,
    <<"A", "1">>, <<"A", "-", "1">>, <<"A", "9">>, <<"D">>, <<"D", "1">>,
    <<"d">>, <<"N">>, <<"y">>, <<"x">>, <<"t">>, <<"z">>, <<"u", "9">>,
    <<"d", "x">>,
    <<"k", "2", "5", "5">>, <<"o", "2", "5", "5">>,
    <<"W">>, <<"W", "0">>, <<"W", "9">>, <<"W", "-", "1">>, <<"M">>, <<"?">>, <<>> }

Lines ==
  {<<id>> \o body : id \in Ids, body \in Bodies}
    \cup { <<"NUL">>, <<"BAD", "d">>, <<"NUL", "0", "N", " ">> }

----------------------------------------------------------------------------
(* The controller as a state machine *)

Obs ==
  [op |-> "init", got |-> FALSE, what |-> "none",
   verb |-> "none", quantity |-> None, moved |-> FALSE, due |-> FALSE,
   pulled |-> 0, differ |-> FALSE, shows |-> 0, written |-> {},
   err |-> "none", flash |-> FALSE, changed |-> FALSE]

\* SdReader before the first mount: no card object, nothing in the slot
NoCard ==
  [interp |-> "python", enabled |-> FALSE, card |-> FALSE, inserted |-> FALSE,
   alive |-> FALSE, dir |-> FALSE, vfs |-> FALSE, fault |-> "none",
   files |-> <<>>]

InitPixels == [p \in PixelRange |-> as_tuple(initial_color)]

InitController ==
  /\ build \in {"app", "code"}
  /\ clock = 0
  /\ pc = "run"
  /\ pixels = InitPixels
  /\ brightness = initial_brightness
  /\ selected = [pixel |-> None, hue |-> None]
  /\ speed = NumSpeeds \div 2
  /\ anim = NoAnim
  /\ lastid = NoId
  /\ execid = NoId
  /\ last = Obs
  /\ sd = NoCard

Init ==
  /\ InitController
  /\ args = [verb |-> "clear", quantity |-> None, current |-> None,
             length |-> 0, loop |-> FALSE]
  /\ ret = [fn |-> "none", out |-> Return(None)]

Commit(s) ==
  /\ pixels' = s.pixels
  /\ brightness' = s.brightness
  /\ selected' = s.selected
  /\ speed' = s.speed
  /\ anim' = s.anim

\* time passes
Tick ==
  /\ pc # "crashed"
  /\ clock < MaxTime
  /\ clock' = clock + 1
  /\ last' = [Obs EXCEPT !.op = "tick"]
  /\ UNCHANGED <<build, pc, pixels, brightness, selected, speed, anim,
                 lastid, execid>>

\* a loop body that goes to the commander without running the animator
AnimatorRun_skipped ==
  /\ build = "app" /\ pc = "run"
  /\ Commit(State)
  /\ last' = [Obs EXCEPT !.op = "run", !.due = ready(anim, clock)]
  /\ pc' = "read"
  /\ UNCHANGED <<build, clock, lastid, execid>>

\* App.loop, first half: self.animator.run()
AnimatorRun ==
  /\ build = "app" /\ pc = "run"
  /\ \E lag \in Lags :
       /\ clock + lag <= MaxTime
       /\ LET due == ready(anim, clock)
              s == Animation_run(State, clock, lag)
          IN /\ Commit(s)
             /\ clock' = IF due THEN clock + lag ELSE clock
             /\ last' = [Obs EXCEPT !.op = "run", !.due = due,
                           !.pulled = s.anim.pos - anim.pos,
                           !.differ = due /\ Frame(anim) # pixels,
                           !.shows = s.shows, !.written = s.written]
  /\ pc' = "read"
  /\ UNCHANGED <<build, lastid, execid>>

\* an `except` clause that lets everything but ValueError through
caught_ValueError(e) == e = "ValueError"

\* `except Exception as err:` around parse and do: every error they raise
\* is an Exception
caught(e) == e \in {"KeyError", "ValueError", "IndexError", "TypeError"}

\* App.loop, second half: read a line, parse it and do the command; every
\* exception of parse and do is caught and flashes the error led
ReadCommand ==
  /\ build = "app" /\ pc = "read"
  /\ \E line \in Lines \cup {<<>>} :
       LET r == read(line, lastid)
           p == IF r.cmdstr.some THEN parse(r.cmdstr.v)
                ELSE [err |-> "none", cmd |-> NoCommand]
           s == IF r.cmdstr.some /\ p.err = "none"
                  THEN App_do(State, p.cmd, clock) ELSE State
           e == IF r.err # "none" THEN r.err
                ELSE IF p.err # "none" THEN p.err ELSE s.err
       IN /\ Commit(s)
          /\ lastid' = r.lastid
          /\ last' = [Obs EXCEPT !.op = "command", !.got = r.cmdstr.some,
                        !.what = p.cmd.what, !.verb = p.cmd.verb,
                        !.quantity = p.cmd.quantity,
                        !.moved = s.speed # speed,
                        !.shows = s.shows, !.written = s.written,
                        !.err = e,
                        !.flash = r.err # "none" \/ (e # "none" /\ caught(e))]
          /\ pc' = IF e = "none" \/ r.err # "none" \/ caught(e)
                     THEN "run" ELSE "crashed"
  /\ UNCHANGED <<build, clock, execid>>

\* code.py loop() when Command.read() returns nothing: Anim.run(), whose
\* exceptions (other than StopIteration) end the main loop
LegacyIdle ==
  /\ build = "code" /\ pc = "run"
  /\ \E line \in {l \in Lines \cup {<<>>} : ~read(l, lastid).cmdstr.some} :
       LET r == read(line, lastid)
           due == anim.some /\ clock - anim.at >= 0
           s == Anim_run(State, clock)
       IN /\ Commit(s)
          /\ lastid' = r.lastid
          /\ pc' = IF s.err # "none" THEN "crashed" ELSE "run"
          /\ last' = [Obs EXCEPT !.op = "idle", !.due = due,
                        !.pulled = s.anim.pos - anim.pos,
                        !.differ = due /\ s.err = "none"
                                   /\ [p \in PixelRange |-> legacy_frame(anim)] # pixels,
                        !.shows = s.shows, !.written = s.written,
                        !.err = IF r.err # "none" THEN r.err ELSE s.err]
  /\ UNCHANGED <<build, clock, execid>>

\* code.py loop() when a command string was read: parse, clear the
\* animation unless the command is a brightness command, do
LegacyCommand ==
  /\ build = "code" /\ pc = "run"
  /\ \E line \in {l \in Lines : read(l, lastid).cmdstr.some} :
       LET r == read(line, lastid)
           p == parse(r.cmdstr.v)
           s0 == IF p.err = "none" /\ p.cmd.what # "brightness"
                   THEN Animator_clear(State) ELSE State
           s == IF p.err = "none" THEN Command_do(s0, p.cmd, clock) ELSE s0
       IN /\ Commit(s)
          /\ lastid' = r.lastid
          /\ last' = [Obs EXCEPT !.op = "command", !.got = TRUE,
                        !.what = p.cmd.what, !.verb = p.cmd.verb,
                        !.quantity = p.cmd.quantity,
                        !.shows = s.shows, !.written = s.written,
                        !.err = IF p.err # "none" THEN p.err ELSE s.err,
                        !.flash = p.err # "none" \/ s.err # "none"]
  /\ UNCHANGED <<build, clock, pc, execid>>

Next ==
  \/ (Tick /\ UNCHANGED <<args, ret, sd>>)
  \/ (AnimatorRun /\ UNCHANGED <<args, ret, sd>>)
  \/ (ReadCommand /\ UNCHANGED <<args, ret, sd>>)
  \/ (LegacyIdle /\ UNCHANGED <<args, ret, sd>>)
  \/ (LegacyCommand /\ UNCHANGED <<args, ret, sd>>)

Spec == Init /\ [][Next]_vars

----------------------------------------------------------------------------
(* Specification of the resolvers as pure functions: Init draws the       *)
(* arguments, one action per resolver applies it.                         *)

Verbs == {"set", "plus", "minus", "clear", "min", "max", "run"}
Quantities == {None} \cup {Some(q) : q \in -MaxQuantity..MaxQuantity}

\* current is None or an index the resolver returned earlier
Currents(length) == {None} \cup {Some(c) : c \in 0..(length - 1)}

NoCall == [fn |-> "none", out |-> Return(None)]

InitResolve ==
  /\ \E verb \in Verbs, quantity \in Quantities, length \in 0..MaxLength,
        loop \in BOOLEAN :
       \E current \in Currents(length) :
         args = [verb |-> verb, quantity |-> quantity, current |-> current,
                 length |-> length, loop |-> loop]
  /\ ret = NoCall
  /\ InitController

CallResolve ==
  /\ ret = NoCall
  /\ ret' = [fn |-> "utils",
             out |-> resolve_index_change(args.verb, args.quantity,
                       args.current, args.length, args.loop)]
  /\ UNCHANGED <<args, sd, ctlvars>>

CallCtlResolve ==
  /\ ret = NoCall
  /\ ret' = [fn |-> "controller",
             out |-> ctl_resolve_index_change(args.verb, args.quantity,
                       args.current, args.length, args.loop)]
  /\ UNCHANGED <<args, sd, ctlvars>>

CallIndexResolve ==
  /\ ret = NoCall
  /\ ret' = [fn |-> "legacy",
             out |-> index_resolve(args.verb, args.quantity,
                       args.current, args.length)]
  /\ UNCHANGED <<args, sd, ctlvars>>

NextResolve == CallResolve \/ CallCtlResolve \/ CallIndexResolve

SpecResolve == InitResolve /\ [][NextResolve]_vars

Called == ret.fn # "none"

----------------------------------------------------------------------------
(* Specification of the command reader alone: the main loop calls read()   *)
(* once per iteration and executes every command string it returns.       *)

ReadLine ==
  /\ \E line \in Lines \cup {<<>>} :
       LET r == read(line, lastid)
       IN /\ lastid' = r.lastid
          /\ execid' = IF r.cmdstr.some THEN r.lastid ELSE execid
          /\ ret' = [fn |-> "read", line |-> line, out |-> r]
  /\ UNCHANGED <<args, build, clock, pc, pixels, brightness, selected,
                 speed, anim, last, sd>>

SpecRead == Init /\ [][ReadLine]_vars

----------------------------------------------------------------------------
(* C1: with verb 'set' and a quantity q, every resolver returns q mod L    *)
(* when -L <= q < L (L > 0), whatever current and wrap are, and raises     *)
(* IndexError (returning no value) for every q outside [-L, L).            *)
C1_SetResolves ==
  (Called /\ args.verb = "set" /\ args.quantity.some /\ args.length > 0) =>
    LET q == args.quantity.v
        L == args.length
    IN IF -L <= q /\ q < L
         THEN ret.out = Return(Some(q % L))
         ELSE ret.out.err = "IndexError" /\ ~ret.out.val.some

\* `pixel set -1` on a 7-pixel strip selects index 6
C1_Witness ==
  /\ ret.fn = "controller" /\ args.verb = "set" /\ args.length = 7
  /\ args.quantity = Some(-1) /\ ret.out = Return(Some(6))

(* C2: with a relative verb, wrap enabled and a current c in [0, L), the   *)
(* controller resolver returns (c + k) mod L for 'plus k' and (c - k)      *)
(* mod L for 'minus k': a value in [0, L) even when c +- k is negative or  *)
(* exceeds L several times.                                                *)
C2_RelativeWraps ==
  (/\ ret.fn \in {"controller", "utils"}
   /\ args.verb \in {"plus", "minus"} /\ args.quantity.some
   /\ args.loop /\ args.current.some /\ args.length > 0) =>
    LET k == args.quantity.v
        c == args.current.v
        L == args.length
        want == IF args.verb = "plus" THEN (c + k) % L ELSE (c - k) % L
    IN /\ ret.out = Return(Some(want))
       /\ ret.out.val.v \in 0..(L - 1)

\* a negative intermediate value, more than one multiple of L below zero
C2_Witness ==
  /\ ret.fn = "controller" /\ args.verb = "minus" /\ args.loop
  /\ args.current = Some(1) /\ args.length = 3 /\ args.quantity = Some(9)
  /\ ret.out = Return(Some(1))

(* C3: from no selection (current None) with wrap, 'plus 1' resolves to 0  *)
(* for every L > 0; in general a positive step is reduced by one before it *)
(* is added to the baseline 0 and a negative step is applied unchanged.    *)
C3_FirstStepFromNone ==
  (/\ Called /\ args.verb \in {"plus", "minus"} /\ args.quantity.some
   /\ ~args.current.some /\ args.length > 0
   /\ (args.loop \/ ret.fn = "legacy")) =>
    LET e == IF args.verb = "plus" THEN args.quantity.v ELSE -args.quantity.v
        L == args.length
    IN /\ ret.out = Return(Some((IF e > 0 THEN e - 1 ELSE e) % L))
       /\ (args.verb = "plus" /\ args.quantity.v = 1) => ret.out.val = Some(0)

C3_Witness ==
  /\ ret.fn = "controller" /\ args.verb = "plus" /\ args.quantity = Some(1)
  /\ ~args.current.some /\ args.loop /\ args.length = 7
  /\ ret.out = Return(Some(0))

(* C4 as amended: the resolver of src/utils.py returns 0 for 'min' and     *)
(* length - 1 for 'max', for every quantity (None included), every         *)
(* current and either wrap setting.                                        *)
C4_MinMaxUtils ==
  (ret.fn = "utils" /\ args.verb \in {"min", "max"}) =>
    ret.out = Return(Some(IF args.verb = "min" THEN 0 ELSE args.length - 1))

C4_Witness ==
  /\ ret.fn = "utils" /\ args.verb = "max" /\ ~args.quantity.some
  /\ args.length = 7 /\ ret.out = Return(Some(6))

(* C4 as stated: every resolver named resolve_index_change returns 0 for   *)
(* 'min' and length - 1 for 'max'.                                         *)
C4_MinMaxEvery ==
  (ret.fn \in {"utils", "controller"} /\ args.verb \in {"min", "max"}) =>
    ret.out = Return(Some(IF args.verb = "min" THEN 0 ELSE args.length - 1))

----------------------------------------------------------------------------
(* Properties of the controller *)

\* a command step of the class-based controller (App.loop -> App.do)
AppCommand == build = "app" /\ last'.op = "command"

Clamp(v) == IF v < 0 THEN 0 ELSE IF v > NumSpeeds - 1 THEN NumSpeeds - 1 ELSE v

(* C5: the speed index is in [0, len(speeds) - 1] in every reachable       *)
(* state; a relative speed command moves it by the step and stops at the   *)
(* ends of the table ('plus' towards index 0, 'minus' towards the last     *)
(* index), a routine started with a quantity stores that quantity clamped  *)
(* the same way, and a speed command that fails leaves the index alone.    *)
C5_SpeedClamped ==
  /\ [](speed \in 0..(NumSpeeds - 1))
  /\ [][AppCommand =>
          LET q == last'.quantity
          IN /\ (last'.what = "speed" /\ last'.err # "none") => speed' = speed
             /\ (/\ last'.what = "speed" /\ last'.verb = "plus" /\ q.some
                 /\ last'.err = "none") => speed' = Clamp(speed - q.v)
             /\ (/\ last'.what = "speed" /\ last'.verb = "minus" /\ q.some
                 /\ last'.err = "none") => speed' = Clamp(speed + q.v)
             /\ (/\ last'.what \in Animator_routines /\ q.some
                 /\ last'.err = "none") => speed' = Clamp(q.v)
             /\ last'.moved <=> speed' # speed]_vars

\* `speed minus 1` at the last index of the table stays there
C5_Witness ==
  /\ build = "app" /\ last.op = "command" /\ last.what = "speed"
  /\ last.verb = "minus" /\ last.quantity = Some(1) /\ ~last.moved
  /\ last.err = "none" /\ speed = NumSpeeds - 1

(* C6: a run of the animation when the clock is before `at` changes        *)
(* nothing (no frame pulled, no pixel written, no flush, same animation);  *)
(* a run when the clock is at or after `at` pulls exactly one frame.       *)
C6_TickGated ==
  [][/\ (build = "app" /\ last'.op = "run") =>
          IF anim.some /\ clock >= anim.at
            THEN last'.pulled = 1 /\ anim'.pos = anim.pos + 1
            ELSE /\ last'.pulled = 0 /\ last'.shows = 0 /\ last'.written = {}
                 /\ UNCHANGED <<pixels, anim, brightness, speed, selected>>
     /\ (build = "code" /\ last'.op = "idle") =>
          IF anim.some /\ clock >= anim.at
            THEN last'.err = "none" => last'.pulled = 1
            ELSE /\ last'.pulled = 0 /\ last'.shows = 0 /\ last'.written = {}
                 /\ UNCHANGED <<pixels, anim, brightness, speed, selected>>
    ]_vars

\* a run that came too early for an animation that has already produced
\* a frame
C6_Witness ==
  /\ build = "app" /\ last.op = "run" /\ ~last.due /\ last.pulled = 0
  /\ anim.some /\ anim.pos >= 1 /\ clock < anim.at

(* C7 as amended: a due tick of the class-based Animation flushes at most  *)
(* once, and exactly when a pixel of the frame differs from the live       *)
(* buffer; a due step of the module-level Anim.fill flushes at most once,  *)
(* and exactly when the value differs from the value the animation showed  *)
(* last (always for its first value).                                      *)
C7_FlushIffDiffers ==
  /\ (build = "app" /\ last.op = "run" /\ last.due) =>
       /\ last.shows = (IF last.differ THEN 1 ELSE 0)
       /\ last.differ <=> last.written # {}
  /\ (build = "code" /\ last.op = "idle" /\ last.due /\ last.err = "none") =>
       last.shows =
         (IF anim.pos = 1
             \/ transitions_repeat(WheelPath, anim.steps, anim.pos - 1)
                # transitions_repeat(WheelPath, anim.steps, anim.pos - 2)
            THEN 1 ELSE 0)

\* a due tick whose frame equals the live buffer: nothing is flushed
C7_Witness ==
  /\ build = "app" /\ last.op = "run" /\ last.due /\ ~last.differ
  /\ last.shows = 0 /\ anim.pos >= 1

(* C7 as stated: in both controllers a due tick flushes at most once, and  *)
(* exactly when a pixel of the frame differs from the live buffer.         *)
C7_FlushIffDiffersLive ==
  (last.op \in {"run", "idle"} /\ last.due /\ last.err = "none") =>
    last.shows = (IF last.differ THEN 1 ELSE 0)

(* C8: a speed command while an animation is running leaves the animation  *)
(* object, its producer position, its next due time and the strip as they  *)
(* are and replaces only the interval, by the table's entry for the new    *)
(* speed index.                                                            *)
C8_SpeedKeepsAnimation ==
  [][(AppCommand /\ last'.what = "speed" /\ anim.some) =>
       /\ anim' = [anim EXCEPT !.interval = speeds(speed')]
       /\ pixels' = pixels]_vars

\* the speed index moved while an animation that had produced frames ran
C8_Witness ==
  /\ build = "app" /\ last.op = "command" /\ last.what = "speed"
  /\ last.moved /\ last.err = "none"
  /\ anim.some /\ anim.pos >= 1 /\ anim.interval = speeds(speed)

\* what a command may leave of the animation once it has cleared it:
\* nothing, or a routine's animation that has not produced a frame
ClearedOrFresh ==
  \/ ~anim'.some
  \/ last'.what \in Animator_routines /\ anim'.pos = 0

\* the animation as it was, but for the interval
AnimationKept == anim' = [anim EXCEPT !.interval = anim'.interval]

(* C9 as amended: App.do clears the animation for every command whose      *)
(* `what` is not brightness, speed or func_noop, and keeps it for those    *)
(* three; the module-level loop clears it for every parsed command but a   *)
(* brightness command, func_noop included.                                 *)
C9_DispatchClears ==
  [][(last'.op = "command" /\ last'.got /\ last'.what # "none"
      /\ anim.some) =>
       IF build = "app"
         THEN IF last'.what \in {"brightness", "speed", "func_noop"}
                THEN AnimationKept ELSE ClearedOrFresh
         ELSE IF last'.what = "brightness"
                THEN anim' = anim ELSE ClearedOrFresh]_vars

\* func_noop was dispatched and the animation is still running
C9_Witness ==
  /\ build = "app" /\ last.op = "command" /\ last.what = "func_noop"
  /\ last.err = "none" /\ anim.some /\ anim.pos >= 1

(* C9 as stated: in both dispatchers brightness, speed and func_noop keep  *)
(* the animation and every other `what` clears it.                         *)
C9_DispatchClearsBoth ==
  [][(last'.op = "command" /\ last'.got /\ last'.what # "none"
      /\ anim.some) =>
       IF last'.what \in {"brightness", "speed", "func_noop"}
         THEN AnimationKept ELSE ClearedOrFresh]_vars

\* a line as read() sees it: undecodable, or its text without the NUL and
\* blank padding
Decodable(line) == \A i \in 1..Len(line) : line[i] # "BAD"
Text(line) == strip(strip(line, {"NUL"}), {" "})
SomeId(c) == [some |-> TRUE, v |-> c]

(* C10 as amended: a line whose id equals lastid returns no command and    *)
(* changes nothing; any other non-empty line stores its id in lastid and   *)
(* returns its remainder as the command string, or no command when the     *)
(* remainder is empty. So every command returned carries an id different   *)
(* from the id of the line accepted before it.                             *)
C10_DuplicateDropped ==
  [][LET line == ret'.line
         text == Text(line)
         cmdstr == ret'.out.cmdstr
     IN IF Decodable(line) /\ text # <<>>
          THEN IF lastid = SomeId(text[1])
                 THEN ~cmdstr.some /\ lastid' = lastid /\ execid' = execid
                 ELSE /\ lastid' = SomeId(text[1])
                      /\ cmdstr.some <=> Len(text) > 1
                      /\ cmdstr.some =>
                           /\ cmdstr.v = Tail(text)
                           /\ lastid' # lastid
                           /\ execid' = lastid'
          ELSE ~cmdstr.some /\ lastid' = lastid /\ execid' = execid]_vars

\* a line repeating the id of the command before it was dropped
C10_Witness ==
  /\ ret.fn = "read" /\ ~ret.out.cmdstr.some
  /\ Len(Text(ret.line)) > 1 /\ lastid = SomeId(Text(ret.line)[1])
  /\ execid = lastid

(* C10 as stated, last sentence: no two commands executed in a row carry   *)
(* the same id.                                                            *)
C10_NoTwoInARow ==
  [][ret'.out.cmdstr.some => execid' # execid]_vars

(* C11: every error raised while a command is parsed or executed by the   *)
(* class-based controller (unknown action character, an action the       *)
(* dispatcher does not know, an index out of range, a malformed or       *)
(* missing quantity) is caught in the same loop iteration, flashes the   *)
(* error led, and the loop goes on: no command ends the main loop.        *)
C11_ErrorsCaught ==
  /\ [](build = "app" => pc # "crashed")
  /\ [][AppCommand =>
          /\ pc' = "run"
          /\ last'.err # "none" => last'.flash]_vars

\* an unknown action character was survived
C11_Witness ==
  /\ build = "app" /\ last.op = "command" /\ last.got
  /\ last.err = "KeyError" /\ last.flash /\ pc = "run"

(* C26 as amended: in the class-based controller the animator's run() is  *)
(* invoked in every iteration of the main loop, whether or not a command  *)
(* is read in it: the commander is read only after run() returned, the    *)
(* next iteration starts with run() again, and a run() that finds a frame *)
(* due pulls it, so commands that keep the animation cannot starve it.    *)
C26_RunEveryIteration ==
  [][build = "app" =>
       /\ last'.op = "command" => (pc = "read" /\ pc' = "run")
       /\ last'.op = "run" =>
            /\ pc = "run" /\ pc' = "read"
            /\ ready(anim, clock) => anim'.pos = anim.pos + 1]_vars

\* a brightness command was handled after the animation had produced its
\* second frame, and the next iteration will run the animator again
C26_Witness ==
  /\ build = "app" /\ last.op = "command" /\ last.got
  /\ last.what = "brightness" /\ last.err = "none"
  /\ anim.some /\ anim.pos >= 2 /\ pc = "run"

(* C26 as stated: in every controller an iteration that reads a command   *)
(* has invoked the animator's run() before the command is handled, so a   *)
(* frame that is due when the iteration starts is pulled in it.           *)
C26_RunWhetherOrNotCommand ==
  [][(last'.op = "command" /\ last'.got) => pc = "read"]_vars

(* C28 as amended: after a due step the module-level Anim.run advances    *)
(* the due time additively, at' = at + interval, however late the step    *)
(* ran; the class-based Animation.run sets it from the clock sampled      *)
(* after the tick, at' = ticks_ms() + interval, so the lateness of a tick *)
(* is carried into every later due time.                                  *)
C28_NextDue ==
  [][/\ (build = "code" /\ last'.op = "idle" /\ last'.due
         /\ last'.err = "none") =>
          anim'.at = anim.at + anim.interval
     /\ (build = "app" /\ last'.op = "run" /\ last'.due) =>
          anim'.at = clock' + anim.interval]_vars

\* a step of the module-level animation that ran after its due time and
\* still set the next due time one interval after the missed one
C28_Witness ==
  /\ build = "code" /\ last.op = "idle" /\ last.due /\ last.err = "none"
  /\ anim.some /\ anim.at - anim.interval < clock

(* C28 as stated: in every controller a due tick sets the next due time   *)
(* to the previous due time plus the interval.                            *)
C28_AdditiveFromDue ==
  [][(last'.op \in {"run", "idle"} /\ last'.due /\ last'.err = "none") =>
       anim'.at = anim.at + anim.interval]_vars

----------------------------------------------------------------------------
(* classes.py: the Changer's hue, color and buffer operations              *)

\* int(x) of the exact quotient n / d (d > 0): truncation towards zero
trunc_div(n, d) == IF n >= 0 THEN n \div d ELSE -((-n) \div d)

\* rainbowio.colorwheel(pos) for pos in 0..255, as a packed integer
colorwheel(pos) ==
  IF pos < 85 THEN as_int(<<255 - 3 * pos, 3 * pos, 0>>)
  ELSE IF pos < 170 THEN as_int(<<0, 255 - 3 * (pos - 85), 3 * (pos - 85)>>)
  ELSE as_int(<<3 * (pos - 170), 0, 255 - 3 * (pos - 170)>>)

\* utils.unwheel: the wheel position a colour tuple is closest to
unwheel(value) ==
  LET Sum(c) == c[1] + c[2] + c[3]
      m == Min(value[1], Min(value[2], value[3]))
      i0 == CHOOSE i \in 1..3 : value[i] = m /\ \A j \in 1..(i - 1) : value[j] # m
      a == IF value[1] # 0 /\ value[2] # 0 /\ value[3] # 0
             THEN [value EXCEPT ![i0] = 0] ELSE value
      c1 == 255 - Sum(a)
      b == [i \in 1..3 |-> a[i] + trunc_div(c1 * a[i], 255)]
      c2 == 255 - Sum(b)
      Fits(i) == b[i] # 0 /\ 0 <= b[i] + c2 /\ b[i] + c2 <= 255
      c == IF c2 # 0 /\ \E i \in 1..3 : Fits(i)
             THEN LET k == CHOOSE i \in 1..3 :
                             Fits(i) /\ \A j \in 1..(i - 1) : ~Fits(j)
                  IN [b EXCEPT ![k] = @ + c2]
             ELSE b
      rgb == IF c1 = 0 THEN a ELSE c
  IN IF Sum(rgb) # 255 THEN 0
     ELSE IF rgb[3] = 0 THEN rgb[2] \div 3
     ELSE IF rgb[1] = 0 THEN rgb[3] \div 3 + 85
     ELSE rgb[1] \div 3 + 170

\* next(iter(prange)): the first pixel of the range
first_pixel(s) == CHOOSE p \in prange(s) : \A q \in prange(s) : p <= q

\* Changer.hue: resolve the hue against the 256-step wheel, write the
\* wheel colour to every pixel of the range, show, remember the hue
Changer_hue(s, verb, quantity) ==
  LET current == IF ~s.selected.hue.some /\ quantity.some
                   THEN Some(unwheel(s.pixels[first_pixel(s)]))
                   ELSE s.selected.hue
      r == ctl_resolve_index_change(verb, quantity, current, 256, TRUE)
      hue == as_tuple(colorwheel(IF r.val.some THEN r.val.v ELSE 0))
  IN IF r.err # "none" THEN Fail(s, r.err)
     ELSE [s EXCEPT !.pixels = [p \in PixelRange |->
                                  IF p \in prange(s) THEN hue ELSE s.pixels[p]],
                    !.written = prange(s),
                    !.shows = @ + 1,
                    !.selected = [@ EXCEPT !.hue = r.val]]

\* the writes of Changer.color and Changer.buffer: target maps the pixels
\* concerned to packed colours; a pixel is written if its colour differs
write_differing(s, target) ==
  LET changed == {p \in DOMAIN target : as_int(s.pixels[p]) # target[p]}
  IN [s EXCEPT !.pixels = [p \in PixelRange |->
                             IF p \in changed THEN as_tuple(target[p])
                             ELSE s.pixels[p]],
               !.written = changed,
               !.shows = IF changed # {} THEN @ + 1 ELSE @]

\* Changer.color: 'set' clamps the packed value, 'copy' takes the colour
\* of the pixel at absindex(value, n); selected is left as it is
Changer_color(s, verb, value) ==
  IF verb \notin {"set", "copy"} THEN Fail(s, "ValueError")
  ELSE IF ~value.some THEN Fail(s, "TypeError")
  ELSE LET v == IF verb = "set" THEN Min(16777215, Max(0, value.v))
                ELSE as_int(s.pixels[absindex(value.v, num_pixels).val.v])
       IN write_differing(s, [p \in prange(s) |-> v])

\* Changer.buffer: 'set' writes buf[p] to pixel p for the pixels buf has;
\* selected is left as it is
Changer_buffer(s, verb, buf) ==
  IF verb # "set" THEN Fail(s, "ValueError")
  ELSE write_differing(s, [p \in {q \in PixelRange : q < Len(buf)} |->
                             buf[p + 1]])

----------------------------------------------------------------------------
(* Specification of the Changer alone: each operation is called with a     *)
(* verb and a quantity, as App.do / Command.do call it.                    *)

Red == 16711680
Green == 65280
Blue == 255

PixelInputs ==
  {<<v, q>> : v \in {"set", "plus", "minus", "clear"},
              q \in {None, Some(0), Some(1), Some(9)}}

HueInputs ==
  { <<"set", Some(0)>>, <<"set", Some(85)>>, <<"set", Some(170)>>,
    <<"set", Some(300)>>, <<"set", None>>, <<"plus", Some(0)>>,
    <<"minus", Some(0)>>, <<"plus", None>>, <<"clear", None>> }

CoarseBrightnessInputs ==
  { <<"set", Some(0)>>, <<"set", None>>, <<"clear", None>>,
    <<"minus", Some(brightness_scale)>>, <<"plus", Some(0)>>,
    <<"minus", Some(0)>> }

ShadeInputs ==
  { <<"set", Some(255)>>, <<"plus", Some(255)>>, <<"minus", Some(255)>>,
    <<"clear", None>>, <<"plus", None>> }

ColorInputs ==
  { <<"set", Some(Red)>>, <<"set", Some(16777216 + Blue)>>,
    <<"set", Some(-1)>>, <<"set", None>>, <<"copy", Some(0)>>,
    <<"copy", Some(-1)>>, <<"copy", Some(9)>>, <<"clear", Some(0)>> }

BufferInputs ==
  { <<"set", <<>> >>, <<"set", <<Red>> >>, <<"set", <<Blue, Green>> >>,
    <<"set", <<initial_color, initial_color, initial_color, initial_color>> >>,
    <<"clear", <<Red>> >> }

\* the strip and the selection after start-up, or after `hue set 85`
InitChanger ==
  /\ build \in {"app", "code"}
  /\ clock = 0 /\ pc = "run"
  /\ \E h \in {None, Some(85)} :
       /\ selected = [pixel |-> None, hue |-> h]
       /\ pixels = [p \in PixelRange |->
                      as_tuple(IF h.some THEN colorwheel(h.v)
                               ELSE initial_color)]
  /\ brightness = initial_brightness
  /\ speed = NumSpeeds \div 2
  /\ anim = NoAnim
  /\ lastid = NoId /\ execid = NoId
  /\ last = Obs
  /\ sd = NoCard
  /\ args = [verb |-> "clear", quantity |-> None, current |-> None,
             length |-> 0, loop |-> FALSE]
  /\ ret = NoCall

\* one call of a Changer operation whose outcome is s
Called_op(op, verb, quantity, s) ==
  /\ Commit(s)
  /\ last' = [Obs EXCEPT !.op = op, !.verb = verb, !.quantity = quantity,
                         !.err = s.err,
                         !.shows = s.shows,
                         !.changed = s.pixels # pixels
                                     \/ s.brightness # brightness]
  /\ UNCHANGED <<args, build, clock, pc, lastid, execid, sd>>

CallPixel ==
  /\ build = "app"
  /\ \E i \in PixelInputs : Called_op("pixel", i[1], None, Changer_pixel(State, i[1], i[2]))

CallChangePixel ==
  /\ build = "code"
  /\ \E i \in PixelInputs : Called_op("pixel", i[1], None, Change_pixel(State, i[1], i[2]))

CallHue ==
  /\ build = "app"
  /\ \E i \in HueInputs : Called_op("hue", i[1], None, Changer_hue(State, i[1], i[2]))

CallBrightness(inputs) ==
  /\ build = "app"
  /\ \E i \in inputs :
       Called_op("brightness", i[1], i[2],
                 Changer_brightness(State, i[1], i[2]))

CallShade ==
  /\ build = "app"
  /\ \E what \in {"red", "green", "blue", "white"}, i \in ShadeInputs :
       Called_op(what, i[1], None, shade(State, ShadeIndexes(what), i[1], i[2]))

CallColor ==
  /\ build = "app"
  /\ \E i \in ColorInputs : Called_op("color", i[1], None, Changer_color(State, i[1], i[2]))

CallBuffer ==
  /\ build = "app"
  /\ \E i \in BufferInputs : Called_op("buffer", i[1], None, Changer_buffer(State, i[1], i[2]))

NextChanger ==
  \/ (CallPixel /\ UNCHANGED ret)
  \/ (CallChangePixel /\ UNCHANGED ret)
  \/ (CallHue /\ UNCHANGED ret)
  \/ (CallBrightness(CoarseBrightnessInputs) /\ UNCHANGED ret)
  \/ (CallShade /\ UNCHANGED ret)
  \/ (CallColor /\ UNCHANGED ret)
  \/ (CallBuffer /\ UNCHANGED ret)

SpecChanger == InitChanger /\ [][NextChanger]_vars

----------------------------------------------------------------------------
(* Specification of the brightness operation alone, with fine steps.  The  *)
(* history ret.minus1 counts the `brightness minus 1` calls made since     *)
(* start-up while no other call was made (-1 afterwards).                  *)

MaxMinus == 14

FineBrightnessInputs ==
  {<<v, q>> : v \in {"set", "plus", "minus", "clear"},
              q \in {None, Some(0), Some(1), Some(5), Some(-1), Some(100),
                     Some(-100)}}

\* Changer.brightness of the stand-alone build (src/classes.py): 'min' and
\* 'max' besides the four verbs
Standalone_brightness(s, verb, quantity) ==
  CASE verb = "min" -> Changer_brightness(s, "set", Some(0))
    [] verb = "max" -> Changer_brightness(s, "set", Some(brightness_scale))
    [] OTHER -> Changer_brightness(s, verb, quantity)

InitBrightness ==
  /\ InitController
  /\ args = [verb |-> "clear", quantity |-> None, current |-> None,
             length |-> 0, loop |-> FALSE]
  /\ ret = [fn |-> "brightness", minus1 |-> 0]

Count(i) ==
  ret' = [ret EXCEPT !.minus1 =
            IF i = <<"minus", Some(1)>> /\ @ >= 0 /\ @ < MaxMinus
              THEN @ + 1 ELSE -1]

\* the same operation in either controller build
BrightnessCommand ==
  /\ \E i \in FineBrightnessInputs :
       /\ Called_op("brightness", i[1], i[2],
                    Changer_brightness(State, i[1], i[2]))
       /\ Count(i)

StandaloneBrightnessCommand ==
  /\ \E i \in FineBrightnessInputs \cup {<<"min", None>>, <<"max", Some(1)>>} :
       /\ Called_op("brightness", i[1], i[2],
                    Standalone_brightness(State, i[1], i[2]))
       /\ Count(i)

NextBrightness == BrightnessCommand \/ StandaloneBrightnessCommand

SpecBrightness == InitBrightness /\ [][NextBrightness]_vars

----------------------------------------------------------------------------
(* Properties of the Changer *)

ColourWrites == {"red", "green", "blue", "white", "color", "buffer"}
ChangerOps == ColourWrites \cup {"pixel", "hue", "brightness"}

(* C12: a pixel-selection command that completes leaves selected hue =     *)
(* None whatever pixel it selects; one that fails (index out of range, no  *)
(* such verb) leaves selected pixel and selected hue as they were.         *)
C12_PixelClearsHue ==
  [][last'.op = "pixel" =>
       IF last'.err = "none" THEN selected'.hue = None
       ELSE selected' = selected]_vars

\* the strip still shows the colour of hue 85, and a pixel is selected
C12_Witness ==
  /\ build = "code" /\ last.op = "pixel" /\ last.err = "none"
  /\ selected.pixel.some /\ selected.hue = None
  /\ \A p \in PixelRange : pixels[p] = as_tuple(colorwheel(85))

(* C13: every colour write through the Changer that completes (red,        *)
(* green, blue, white, color set/copy, buffer set) leaves selected hue =   *)
(* None.                                                                   *)
C13_ColourWriteClearsHue ==
  (last.op \in ColourWrites /\ last.err = "none") => selected.hue = None

(* C14: every Changer operation flushes at most once, and only when it     *)
(* changed the buffer or the brightness.                                   *)
C14_FlushOnlyOnChange ==
  (last.op \in ChangerOps) =>
    /\ last.shows <= 1
    /\ last.shows = 1 => last.changed

\* brightness after a command of the given verb and quantity
BrightnessAfter(b, verb, q) ==
  LET v == CASE verb = "clear" -> initial_brightness
             [] verb = "min" -> 0
             [] verb = "max" -> brightness_scale
             [] verb = "set" -> q.v
             [] verb = "minus" -> b - q.v
             [] OTHER -> b + q.v
  IN IF v < 0 THEN 0 ELSE IF v > brightness_scale THEN brightness_scale ELSE v

(* C15: brightness, in scale units, is in [0, brightness_scale] in every   *)
(* reachable state; a brightness command sets it to the clamped result     *)
(* and flushes exactly when the value changed, so a minus at 0 and a plus  *)
(* at the scale change nothing and do not flush.                           *)
C15_BrightnessClamped ==
  /\ [](brightness \in 0..brightness_scale)
  /\ [][last'.op = "brightness" =>
          IF last'.err = "none"
            THEN /\ brightness' =
                      BrightnessAfter(brightness, last'.verb, last'.quantity)
                 /\ last'.shows = (IF brightness' # brightness THEN 1 ELSE 0)
                 /\ (/\ last'.quantity.some /\ last'.quantity.v >= 0
                     /\ \/ last'.verb = "minus" /\ brightness = 0
                        \/ last'.verb = "plus" /\ brightness = brightness_scale)
                    => brightness' = brightness /\ last'.shows = 0
            ELSE brightness' = brightness /\ last'.shows = 0]_vars

\* a plus at the top of the scale
C15_Witness ==
  /\ last.op = "brightness" /\ last.verb = "plus" /\ last.quantity = Some(5)
  /\ brightness = brightness_scale /\ last.shows = 0 /\ last.err = "none"

(* C16 as amended: from the initial brightness 12 of scale 64, n calls of  *)
(* `brightness minus 1` leave the value at max(0, 12 - n): 7 after five,   *)
(* 0 after twelve; each of the first twelve flushes once and every         *)
(* further one is a no-op without a flush.                                 *)
C16_MinusOneFromInitial ==
  (ret.minus1 >= 0) =>
    /\ brightness = Max(0, initial_brightness - ret.minus1)
    /\ ret.minus1 = 5 => brightness = 7
    /\ ret.minus1 \in 1..initial_brightness => last.shows = 1
    /\ ret.minus1 > initial_brightness =>
         brightness = 0 /\ last.shows = 0 /\ ~last.changed

\* the thirteenth `minus 1`
C16_Witness ==
  /\ ret.minus1 = initial_brightness + 1 /\ brightness = 0
  /\ last.op = "brightness" /\ last.verb = "minus" /\ last.shows = 0

(* C16 as stated: five calls of `brightness minus 1` from 12 of 64 leave   *)
(* the value at 0 and a further one is a no-op without a flush.            *)
C16_FiveTimesToZero ==
  (ret.minus1 >= 5) => brightness = 0 /\ (ret.minus1 > 5 => last.shows = 0)

----------------------------------------------------------------------------
(* classes.py: SdReader and BufStore; code.py: State; sdcard.py: SDcard.   *)
(* sd holds the reader's fields and what the slot holds:                   *)
(*   int_prefix  whether int() of the interpreter accepts a base prefix    *)
(*   enabled     settings.sd_enabled                                       *)
(*   card        SdReader.card / SDcard.sd is not None                     *)
(*   inserted    a card is in the slot (SDCard() and mount succeed)        *)
(*   alive       the mounted file system answers (the sentinel opens)      *)
(*   vfs         SdReader.vfs / SDcard.vfs is not None                     *)
(*   fault       what is wrong with the card in the slot: "none", or the   *)
(*               step of a mount that raises OSError on it: "format"       *)
(*               (VfsFat), "mount" (storage.mount), "write" (the sentinel) *)
(*   dir         the preset directory exists on the card                   *)
(*   files       slot -> [exists, lines, buf]; buf is history: the buffer  *)
(*               the last successful save of the slot was given            *)
(* A file is the sequence of its lines, a line a sequence of characters.   *)

num_presets == 2

Slots == 0..(num_presets - 1)

HexDigits ==
  <<"0", "1", "2", "3", "4", "5", "6", "7", "8", "9",
    "a", "b", "c", "d", "e", "f">>

RECURSIVE hex_digits(_)
hex_digits(n) ==
  IF n < 16 THEN <<HexDigits[n + 1]>>
  ELSE hex_digits(n \div 16) \o <<HexDigits[(n % 16) + 1]>>

\* hex(n) for n >= 0: '0x' and the lowercase digits
hex(n) == <<"0", "x">> \o hex_digits(n)

IsHexDigits(s) ==
  Len(s) > 0 /\ \A i \in 1..Len(s) : \E d \in 1..16 : HexDigits[d] = s[i]

RECURSIVE hex_value(_)
hex_value(s) ==
  IF Len(s) = 0 THEN 0
  ELSE 16 * hex_value(SubSeq(s, 1, Len(s) - 1))
       + (CHOOSE d \in 0..15 : HexDigits[d + 1] = s[Len(s)])

HasPrefix(s) == Len(s) >= 2 /\ s[1] = "0" /\ s[2] = "x"

\* int(line) of one argument.  Python parses in base 10 and raises
\* ValueError on '0x...'; an interpreter that parses the single argument
\* in base 0 takes the prefix.  Which one runs is sd.int_prefix.
int_line(s, int_prefix) ==
  IF int_prefix /\ HasPrefix(s)
    THEN IF IsHexDigits(SubSeq(s, 3, Len(s)))
           THEN Return(Some(hex_value(SubSeq(s, 3, Len(s)))))
           ELSE Raise("ValueError")
    ELSE int(s)

Whitespace == {" ", "\n"}

NoFile == [exists |-> FALSE, lines |-> <<>>, buf |-> None]

\* what the call has done so far: the reader e.sd, the hardware and file
\* accesses e.log in order, and the value e.ok of the last call
Env(d) == [sd |-> d, log |-> <<>>, ok |-> TRUE]

\* SdReader.umount / SDcard.deinit
SdReader_umount(e) ==
  IF e.sd.card
    THEN [e EXCEPT !.log = @ \o <<"umount">>,
                   !.sd.card = FALSE, !.sd.vfs = FALSE, !.sd.alive = FALSE]
    ELSE e

\* the try block of remount: SDCard() raises OSError with no card in the
\* slot; with one, self.card is set and VfsFat(card), storage.mount or the
\* writing of the sentinel may still raise OSError (sd.fault names which)
mount_try(m) ==
  IF ~m.sd.inserted THEN [m EXCEPT !.ok = FALSE]
  ELSE IF m.sd.fault = "format" THEN [m EXCEPT !.sd.card = TRUE, !.ok = FALSE]
  ELSE IF m.sd.fault \in {"mount", "write"}
    THEN [m EXCEPT !.sd.card = TRUE, !.sd.vfs = TRUE, !.ok = FALSE]
  ELSE [m EXCEPT !.sd.card = TRUE, !.sd.vfs = TRUE, !.sd.alive = TRUE,
                 !.ok = TRUE]

\* a remount whose `except OSError` does not unmount
remount_no_cleanup(e) ==
  IF ~e.sd.enabled THEN [e EXCEPT !.ok = FALSE]
  ELSE mount_try([SdReader_umount(e) EXCEPT !.log = @ \o <<"mount">>])

\* a remount that does not look at settings.sd_enabled
remount_always(e) ==
  LET u == SdReader_umount(e)
      m == mount_try([u EXCEPT !.log = @ \o <<"mount">>])
  IN IF m.ok THEN m ELSE [SdReader_umount(m) EXCEPT !.ok = FALSE]

\* SdReader.remount / SDcard.init
SdReader_remount(e) ==
  IF ~e.sd.enabled THEN [e EXCEPT !.ok = FALSE]
  ELSE LET u == SdReader_umount(e)
           m == mount_try([u EXCEPT !.log = @ \o <<"mount">>])
       IN IF m.ok THEN m ELSE [SdReader_umount(m) EXCEPT !.ok = FALSE]

\* a checkmount that trusts the card object and never probes
checkmount_noprobe(e) ==
  IF e.sd.card THEN [e EXCEPT !.ok = TRUE] ELSE SdReader_remount(e)

\* SdReader.checkmount / SDcard.check
SdReader_checkmount(e) ==
  IF e.sd.card
    THEN LET p == [e EXCEPT !.log = @ \o <<"probe">>]
         IN IF p.sd.alive THEN [p EXCEPT !.ok = TRUE]
            ELSE SdReader_remount(p)
    ELSE SdReader_remount(e)

\* SdReader.mkdirp / SDcard.mkdirp of the one-node preset directory
SdReader_mkdirp(e) ==
  LET c == SdReader_checkmount(e)
  IN IF ~c.ok THEN c
     ELSE LET s == [c EXCEPT !.log = @ \o <<"stat">>]
          IN IF s.sd.dir THEN s
             ELSE [s EXCEPT !.log = @ \o <<"mkdir">>, !.sd.dir = TRUE]

\* the values BufStore._reader parses out of the lines of a file, in order:
\* a blank line and a line int() rejects are skipped
RECURSIVE parsed(_, _)
parsed(lines, int_prefix) ==
  IF Len(lines) = 0 THEN <<>>
  ELSE LET line == strip(Head(lines), Whitespace)
           rest == parsed(Tail(lines), int_prefix)
           r == int_line(line, int_prefix)
       IN IF Len(line) = 0 \/ r.err # "none" THEN rest
          ELSE <<r.val.v>> \o rest

\* BufStore._reader(file, stop), run to its end: OSError if the file does
\* not open, nothing if no line parses, else stop values, the file read
\* again from its start as often as needed
BufStore_reader(d, index, stop) ==
  LET f == d.files[index]
      good == parsed(f.lines, d.int_prefix)
  IN IF ~f.exists THEN [err |-> "OSError", vals |-> <<>>]
     ELSE [err |-> "none",
           vals |-> IF Len(good) = 0 THEN <<>>
                    ELSE [k \in 1..stop |-> good[((k - 1) % Len(good)) + 1]]]

\* index in self.range
InRange(index) == index.some /\ index.v \in Slots

\* BufStore.has
BufStore_has(e, index) ==
  IF ~InRange(index) THEN [e EXCEPT !.ok = FALSE]
  ELSE LET c == SdReader_checkmount(e)
       IN IF ~c.ok THEN c
          ELSE LET r == BufStore_reader(c.sd, index.v, 1)
               IN [c EXCEPT !.log = @ \o <<"open">>,
                            !.ok = r.err = "none" /\ Len(r.vals) > 0]

\* the outcome of a BufStore / State operation
Stored(px, shows, e, out) ==
  [pixels |-> px, shows |-> shows, sd |-> e.sd, log |-> e.log, out |-> out]

Fallback == [p \in PixelRange |-> as_tuple(initial_color)]

\* a restore that writes nothing when the slot cannot be read
restore_nofill(px, d, index) ==
  LET h == BufStore_has(Env(d), index)
  IN IF ~h.ok THEN Stored(px, 0, h, Return(FALSE))
     ELSE LET r == BufStore_reader(h.sd, index.v, num_pixels)
              target == [p \in PixelRange |-> as_tuple(r.vals[p + 1])]
          IN Stored(target, IF target # px THEN 1 ELSE 0,
                    [h EXCEPT !.log = @ \o <<"open">>], Return(TRUE))

\* a restore that takes a record shorter than the strip for unreadable
restore_short_fails(px, d, index) ==
  LET h == BufStore_has(Env(d), index)
  IN IF ~h.ok \/ Len(parsed(h.sd.files[index.v].lines, h.sd.int_prefix))
                   < num_pixels
       THEN Stored(Fallback, 1, h, Return(FALSE))
       ELSE LET r == BufStore_reader(h.sd, index.v, num_pixels)
                target == [p \in PixelRange |-> as_tuple(r.vals[p + 1])]
            IN Stored(target, IF target # px THEN 1 ELSE 0,
                      [h EXCEPT !.log = @ \o <<"open">>], Return(TRUE))

\* BufStore.restore, with BufStore.read inlined
BufStore_restore(px, d, index) ==
  LET h == IF num_pixels > 0 THEN BufStore_has(Env(d), index)
           ELSE [Env(d) EXCEPT !.ok = FALSE]
  IN IF ~h.ok THEN Stored(Fallback, 1, h, Return(FALSE))
     ELSE LET r == BufStore_reader(h.sd, index.v, num_pixels)
              target == [p \in PixelRange |-> as_tuple(r.vals[p + 1])]
          IN Stored(target, IF target # px THEN 1 ELSE 0,
                    [h EXCEPT !.log = @ \o <<"open">>], Return(TRUE))

\* the lines save writes: hex(as_int(value)) for every pixel
pack(px) == [k \in 1..num_pixels |-> hex(as_int(px[k - 1]))]

\* open(file, 'w') and the writes of save: the file is emptied when it is
\* opened; written is the number of lines on the card when the writing
\* ends, num_pixels if it ends well, fewer if a write raises OSError
written_file(px, written) ==
  [exists |-> TRUE, lines |-> SubSeq(pack(px), 1, written),
   buf |-> IF written = num_pixels THEN Some(px) ELSE None]

\* BufStore.save
BufStore_save(px, d, index, written) ==
  IF ~InRange(index) THEN Stored(px, 0, Env(d), Raise("IndexError"))
  ELSE LET m == SdReader_mkdirp(Env(d))
       IN IF ~m.ok THEN Stored(px, 0, m, Return(FALSE))
          ELSE Stored(px, 0,
                 [m EXCEPT !.log = @ \o <<"write">>,
                           !.sd.files[index.v] = written_file(px, written)],
                 Return(written = num_pixels))

\* BufStore.clear: a file already missing (errno 2) is no failure
BufStore_clear(px, d, index) ==
  IF ~InRange(index) THEN Stored(px, 0, Env(d), Raise("IndexError"))
  ELSE LET c == SdReader_checkmount(Env(d))
       IN IF ~c.ok THEN Stored(px, 0, c, Return(FALSE))
          ELSE Stored(px, 0,
                 [c EXCEPT !.log = @ \o <<"remove">>,
                           !.sd.files[index.v] = NoFile],
                 Return(TRUE))

\* BufStore.has as an operation of its own
BufStore_has_op(px, d, index) ==
  LET h == BufStore_has(Env(d), index)
  IN Stored(px, 0, h, Return(h.ok))

\* str.split(sep, maxsplit)
RECURSIVE split(_, _, _)
split(s, sep, maxsplit) ==
  IF maxsplit = 0 \/ ~\E i \in 1..Len(s) : s[i] = sep THEN <<s>>
  ELSE LET i == CHOOSE i \in 1..Len(s) :
                  s[i] = sep /\ \A j \in 1..(i - 1) : s[j] # sep
       IN <<SubSeq(s, 1, i - 1)>>
          \o split(SubSeq(s, i + 1, Len(s)), sep, maxsplit - 1)

\* one line of State.unpack: '0x...' through int() and as_tuple, any other
\* line as integers between commas
unpack_line(line, int_prefix) ==
  IF HasPrefix(line)
    THEN LET r == int_line(line, int_prefix)
         IN IF r.err = "none" THEN Return(as_tuple(r.val.v)) ELSE Raise(r.err)
    ELSE LET parts == split(line, ",", 2)
             rs == [k \in 1..Len(parts) |-> int(parts[k])]
         IN IF \E k \in 1..Len(parts) : rs[k].err # "none"
              THEN Raise("ValueError")
              ELSE Return([k \in 1..Len(parts) |-> rs[k].val.v])

\* State.unpack of the lines it is given
RECURSIVE State_unpack(_, _)
State_unpack(lines, int_prefix) ==
  IF Len(lines) = 0 THEN Return(<<>>)
  ELSE LET one == unpack_line(Head(lines), int_prefix)
           rest == State_unpack(Tail(lines), int_prefix)
       IN IF one.err # "none" THEN one
          ELSE IF rest.err # "none" THEN rest
          ELSE Return(<<one.val>> \o rest.val)

\* State.read: None (some = FALSE) when the card, the file or a line fails
State_read(e, index) ==
  LET c == SdReader_checkmount(e)
      f == c.sd.files[index]
      o == [c EXCEPT !.log = @ \o <<"open">>]
      u == State_unpack(SubSeq(f.lines, 1, Min(Len(f.lines), num_pixels)),
                        c.sd.int_prefix)
  IN IF ~c.ok THEN [e |-> c, values |-> None]
     ELSE IF ~f.exists \/ u.err # "none" THEN [e |-> o, values |-> None]
     ELSE [e |-> o, values |-> Some(u.val)]

\* State.restore
State_restore(px, d, index) ==
  LET r == State_read(Env(d), index)
      length == Len(r.values.v)
  IN IF ~r.values.some \/ length = 0
       THEN Stored(Fallback, 1, r.e, Return(FALSE))
       ELSE LET target == [p \in PixelRange |->
                             r.values.v[absindex(p, length).val.v + 1]]
            IN Stored(target, IF target # px THEN 1 ELSE 0, r.e, Return(TRUE))

\* State.save
State_save(px, d, index, written) ==
  LET m == SdReader_mkdirp(Env(d))
  IN IF ~m.ok THEN Stored(px, 0, m, Return(FALSE))
     ELSE Stored(px, 0,
            [m EXCEPT !.log = @ \o <<"write">>,
                      !.sd.files[index] = written_file(px, written)],
            Return(written = num_pixels))

\* State.clear
State_clear(px, d, index) ==
  LET c == SdReader_checkmount(Env(d))
  IN IF ~c.ok THEN Stored(px, 0, c, Return(FALSE))
     ELSE Stored(px, 0,
            [c EXCEPT !.log = @ \o <<"remove">>,
                      !.sd.files[index] = NoFile],
            Return(TRUE))

----------------------------------------------------------------------------
(* Specification of the preset store: the operations of BufStore (app.py)  *)
(* and State (code.py) in any order, while the card is taken out, put     *)
(* back and written elsewhere, and the strip is repainted.                 *)

\* the index a command carries: none, a slot, or one past the last slot
Indexes == {None} \cup {Some(i) : i \in 0..num_presets}

\* the buffers a Changer command leaves: one colour, or two
Paints ==
  {[p \in PixelRange |-> as_tuple(Red)],
   [p \in PixelRange |-> as_tuple(IF p = 0 THEN Green ELSE Red)]}

\* preset files written off the controller, one line for the whole strip:
\* the packed integer in decimal, or 'R,G,B'
ForeignFiles ==
  {<< <<"2", "5", "5">> >>, << <<"0", ",", "0", ",", "2", "5", "5">> >>}

\* how far the writing of a save gets: to the end, or an OSError at the
\* first write, after open() has emptied the file
Writes == {num_pixels, 0}

InitStore ==
  /\ build \in {"app", "code"}
  /\ clock = 0 /\ pc = "run"
  /\ pixels = InitPixels
  /\ brightness = initial_brightness
  /\ selected = [pixel |-> None, hue |-> None]
  /\ speed = NumSpeeds \div 2
  /\ anim = NoAnim
  /\ lastid = NoId /\ execid = NoId
  /\ last = Obs
  /\ args = [verb |-> "clear", quantity |-> None, current |-> None,
             length |-> 0, loop |-> FALSE]
  /\ \E int_prefix \in BOOLEAN, enabled \in BOOLEAN, inserted \in BOOLEAN :
       sd = [int_prefix |-> int_prefix, enabled |-> enabled, card |-> FALSE,
             inserted |-> inserted, alive |-> FALSE, dir |-> FALSE,
             vfs |-> FALSE, fault |-> "none",
             files |-> [i \in Slots |-> NoFile]]
  /\ ret = [fn |-> "none", index |-> None, out |-> Return(FALSE),
            log |-> <<>>, shows |-> 0]

\* one operation of the store, whose outcome is r
StoreCommit(fn, index, r) ==
  /\ pixels' = r.pixels
  /\ sd' = r.sd
  /\ ret' = [fn |-> fn, index |-> index, out |-> r.out, log |-> r.log,
             shows |-> r.shows]
  /\ UNCHANGED <<args, build, clock, pc, brightness, selected, speed, anim,
                 lastid, execid, last>>

Save ==
  /\ build = "app"
  /\ \E index \in Indexes, written \in Writes :
       StoreCommit("save", index, BufStore_save(pixels, sd, index, written))

Clear ==
  /\ build = "app"
  /\ \E index \in Indexes :
       StoreCommit("clear", index, BufStore_clear(pixels, sd, index))

Has ==
  /\ build = "app"
  /\ \E index \in Indexes :
       StoreCommit("has", index, BufStore_has_op(pixels, sd, index))

Restore ==
  /\ build = "app"
  /\ \E index \in Indexes :
       StoreCommit("restore", index, BufStore_restore(pixels, sd, index))

StateSave ==
  /\ build = "code"
  /\ \E i \in Slots, written \in Writes :
       StoreCommit("save", Some(i), State_save(pixels, sd, i, written))

StateClear ==
  /\ build = "code"
  /\ \E i \in Slots :
       StoreCommit("clear", Some(i), State_clear(pixels, sd, i))

StateRestore ==
  /\ build = "code"
  /\ \E i \in Slots :
       StoreCommit("restore", Some(i), State_restore(pixels, sd, i))

\* something other than the store acts
Elsewhere(px, d) ==
  StoreCommit("none", None,
              Stored(px, 0, [sd |-> d, log |-> <<>>], Return(FALSE)))

\* the card is pulled out of the slot
Eject ==
  /\ sd.inserted
  /\ Elsewhere(pixels, [sd EXCEPT !.inserted = FALSE, !.alive = FALSE])

\* a card is pushed in; the reader still holds what it held
Insert ==
  /\ ~sd.inserted
  /\ Elsewhere(pixels, [sd EXCEPT !.inserted = TRUE])

\* while out of the slot, the card gets a preset written by other means
WritePreset ==
  /\ ~sd.inserted
  /\ \E lines \in ForeignFiles :
       /\ build = "code" => Len(split(lines[1], ",", 2)) = 3
       /\ Elsewhere(pixels,
            [sd EXCEPT !.dir = TRUE,
                       !.files[0] = [exists |-> TRUE, lines |-> lines,
                                     buf |-> None]])

\* a Changer command repaints the strip
Paint ==
  /\ \E px \in Paints : Elsewhere(px, sd)

NextStore ==
  \/ Save \/ Clear \/ Has \/ Restore
  \/ StateSave \/ StateClear \/ StateRestore
  \/ Eject \/ Insert \/ WritePreset \/ Paint

SpecStore == InitStore /\ [][NextStore]_vars

----------------------------------------------------------------------------
(* Properties of the preset store *)

\* the card is in the slot and the store may use it
StorageUp == sd.enabled /\ sd.inserted

StoreOps == {"save", "clear", "has", "restore"}

(* C17: with storage mounted and writable, for every slot i and every      *)
(* buffer, save(i) followed by restore(i) returns True and leaves the      *)
(* pixels equal to the buffer that was saved: a restore of a slot whose    *)
(* file was written by a successful save succeeds with that buffer.        *)
C17_RoundTrip ==
  (/\ ret.fn = "restore" /\ InRange(ret.index) /\ StorageUp
   /\ sd.files[ret.index.v].buf.some) =>
    /\ ret.out = Return(TRUE)
    /\ pixels = sd.files[ret.index.v].buf.v

(* C18: for a valid slot i with storage mounted, has(i) right after a      *)
(* clear(i) that returned is False, and has(i) right after a save(i) that  *)
(* returned True is True.                                                  *)
C18_HasAfter ==
  [][(/\ ret'.fn = "has" /\ ret'.index = ret.index /\ InRange(ret.index)
      /\ ret.out = Return(TRUE) /\ StorageUp) =>
       /\ ret.fn = "clear" => ret'.out = Return(FALSE)
       /\ ret.fn = "save" => ret'.out = Return(TRUE)]_vars

Count_of(log, x) == Cardinality({k \in 1..Len(log) : log[k] = x})

(* C20: with storage enabled, every store operation on a valid slot first  *)
(* opens the sentinel when a card object is attached; when that fails, or  *)
(* no card object is attached, it makes exactly one mount attempt, after   *)
(* unmounting what was attached; when the attempt fails the operation      *)
(* returns False and has opened, written and removed no slot file.  An     *)
(* operation whose probe succeeds mounts nothing.                          *)
C20_MountRecovery ==
  [][(ret'.fn \in StoreOps /\ InRange(ret'.index) /\ sd.enabled) =>
       LET log == ret'.log
           probed == sd.card /\ sd.alive
       IN /\ Len(log) > 0
          /\ sd.card => log[1] = "probe"
          /\ Count_of(log, "probe") = (IF sd.card THEN 1 ELSE 0)
          /\ probed => Count_of(log, "mount") = 0
                       /\ Count_of(log, "umount") = 0
          /\ (sd.card /\ ~sd.alive) =>
               Len(log) >= 3 /\ log[2] = "umount" /\ log[3] = "mount"
          /\ ~sd.card => log[1] = "mount"
          /\ ~probed => Count_of(log, "mount") = 1
          /\ (~probed /\ ~sd.inserted) =>
               /\ ret'.out = Return(FALSE)
               /\ \A k \in 1..Len(log) :
                    log[k] \notin {"open", "write", "remove", "stat", "mkdir"}
               /\ sd'.files = sd.files /\ sd'.dir = sd.dir]_vars

C20_Witness ==
  /\ ret.fn = "save" /\ InRange(ret.index) /\ sd.enabled
  /\ ret.log = <<"probe", "umount", "mount">>
  /\ ret.out = Return(FALSE)

(* C21: with storage disabled (sd_enabled false) every store operation     *)
(* reports failure (False, or IndexError from save and clear for an index  *)
(* outside the range), a failed restore still fills the strip, and in any  *)
(* sequence of operations no card object is attached, nothing is mounted   *)
(* or unmounted and no file or sentinel is opened.                         *)
C21_DisabledShortCircuits ==
  ~sd.enabled =>
    /\ ~sd.card /\ ~sd.alive
    /\ ret.fn \in StoreOps =>
         /\ ret.log = <<>>
         /\ IF ret.fn \in {"save", "clear"} /\ ~InRange(ret.index)
              THEN ret.out.err = "IndexError"
              ELSE ret.out = Return(FALSE)
         /\ ret.fn = "restore" => pixels = Fallback

C21_Witness ==
  /\ ~sd.enabled /\ sd.inserted /\ ret.fn = "save" /\ InRange(ret.index)
  /\ pixels # Fallback
  /\ ret.out = Return(FALSE) /\ ret.log = <<>>

(* C22: a save(index) that fails after the file is opened (returns False   *)
(* having begun to write) leaves the record of the slot as it was before   *)
(* the call.                                                               *)
C22_FailedSaveKeepsRecord ==
  [][(/\ ret'.fn = "save" /\ InRange(ret'.index)
      /\ sd.files[ret'.index.v].exists
      /\ ret'.out = Return(FALSE)
      /\ \E k \in 1..Len(ret'.log) : ret'.log[k] = "write") =>
       sd'.files[ret'.index.v] = sd.files[ret'.index.v]]_vars

----------------------------------------------------------------------------
(* Specification of restore alone: slot 0 holds a file of one or two      *)
(* lines written off the controller, or none, and the strip is restored   *)
(* and repainted in any order.                                             *)

\* preset files of one and of two lines, in decimal and as 'R,G,B'
RecordFiles ==
  ForeignFiles \cup
  {<< <<"2", "5", "5">>, <<"6", "5", "2", "8", "0">> >>,
   << <<"0", ",", "0", ",", "2", "5", "5">>,
      <<"2", "5", "5", ",", "0", ",", "0">> >>}

InitRestore ==
  /\ build \in {"app", "code"}
  /\ clock = 0 /\ pc = "run"
  /\ pixels = InitPixels
  /\ brightness = initial_brightness
  /\ selected = [pixel |-> None, hue |-> None]
  /\ speed = NumSpeeds \div 2
  /\ anim = NoAnim
  /\ lastid = NoId /\ execid = NoId
  /\ last = Obs
  /\ args = [verb |-> "clear", quantity |-> None, current |-> None,
             length |-> 0, loop |-> FALSE]
  /\ \E int_prefix \in BOOLEAN, enabled \in BOOLEAN, lines \in RecordFiles :
       /\ build = "code" => Len(split(lines[1], ",", 2)) = 3
       /\ sd = [int_prefix |-> int_prefix, enabled |-> enabled,
                card |-> FALSE, inserted |-> TRUE, alive |-> FALSE,
                dir |-> TRUE, vfs |-> FALSE, fault |-> "none",
                files |-> [i \in Slots |->
                             IF i = 0 THEN [exists |-> TRUE, lines |-> lines,
                                            buf |-> None]
                             ELSE NoFile]]
  /\ ret = [fn |-> "none", index |-> None, out |-> Return(FALSE),
            log |-> <<>>, shows |-> 0]

NextRestore == Restore \/ StateRestore \/ Paint

SpecRestore == InitRestore /\ [][NextRestore]_vars

----------------------------------------------------------------------------
(* Specification of the reader alone: checkmount, remount, umount and     *)
(* mkdirp of SdReader (classes.py) / check, init, deinit and mkdirp of    *)
(* SDcard (sdcard.py) in any order, while cards, sound and faulty, are    *)
(* taken out and put in.                                                   *)

Faults == {"none", "format", "mount", "write"}

\* one operation of the reader, which leaves e
Mounted(fn, e) ==
  StoreCommit(fn, None, Stored(pixels, 0, e, Return(e.ok)))

Checkmount ==
  \E e \in {SdReader_checkmount(Env(sd))} : Mounted("checkmount", e)

Remount ==
  \E e \in {SdReader_remount(Env(sd))} : Mounted("remount", e)

Umount ==
  \E e \in {SdReader_umount(Env(sd))} : Mounted("umount", e)

Mkdirp ==
  \E e \in {SdReader_mkdirp(Env(sd))} : Mounted("mkdirp", e)

\* a card, sound or faulty, is pushed into the empty slot
CardIn ==
  /\ ~sd.inserted
  /\ \E fault \in Faults :
       Elsewhere(pixels, [sd EXCEPT !.inserted = TRUE, !.fault = fault,
                                   !.dir = FALSE])

NextMount ==
  Checkmount \/ Remount \/ Umount \/ Mkdirp \/ Eject \/ CardIn

SpecMount == InitStore /\ [][NextMount]_vars

(* C37: between operations card is None if and only if vfs is None; after *)
(* remount() returns False both are None; checkmount() returns True only  *)
(* in a state where card is not None.                                     *)
C37_CardVfsConsistent ==
  /\ sd.card <=> sd.vfs
  /\ (ret.fn = "remount" /\ ret.out = Return(FALSE)) =>
       (~sd.card /\ ~sd.vfs)
  /\ (ret.fn = "checkmount" /\ ret.out = Return(TRUE)) => sd.card

C37_Witness ==
  /\ ret.fn = "remount" /\ ret.out = Return(FALSE)
  /\ sd.enabled /\ sd.inserted /\ sd.fault = "format"
  /\ ret.log = <<"umount", "mount", "umount">>
  /\ ~sd.card /\ ~sd.vfs

C37_WitnessCheck ==
  /\ ret.fn = "checkmount" /\ ret.out = Return(TRUE)
  /\ ret.log = <<"probe", "umount", "mount">>
  /\ sd.card /\ sd.vfs

\* the colours the file of slot i holds, as the build reads them: one per
\* line int() accepts (app.py), one per line of the first num_pixels
\* lines if every one of them unpacks (code.py)
Record(d, i) ==
  IF build = "app"
    THEN LET good == parsed(d.files[i].lines, d.int_prefix)
         IN [k \in 1..Len(good) |-> as_tuple(good[k])]
    ELSE LET f == d.files[i]
             u == State_unpack(SubSeq(f.lines, 1,
                                      Min(Len(f.lines), num_pixels)),
                               d.int_prefix)
         IN IF u.err = "none" THEN u.val ELSE <<>>

\* slot i holds a record of at least one colour and fewer than the strip
ShortRecord(d, i) ==
  /\ d.enabled /\ d.inserted /\ d.files[i].exists
  /\ Len(Record(d, i)) > 0 /\ Len(Record(d, i)) < num_pixels

----------------------------------------------------------------------------
(* The three transition generators, each run to its end: utils.transition  *)
(* (controller/utils.py), rgbutil.transition (controller/rgbutil.py) and   *)
(* the stand-alone utils.transition (src/utils.py).  args holds a, b and   *)
(* steps, ret the name of the generator and the colours it yielded.       *)

MaxSteps == 4

\* utils.transition: range(steps) pulls of the three graduate generators
utils_transition(a, b, steps) ==
  IF steps < 1 THEN Raise("ValueError")
  ELSE Return([k \in 1..steps |-> transition(a, b, steps, k - 1)])

\* rgbutil.transition: start, the rounded steps 1 .. steps - 2, end
rgbutil_transition(start, end, steps) ==
  IF steps < 1 THEN Raise("ValueError")
  ELSE Return(<<start>>
              \o [k \in 1..Max(0, steps - 2) |->
                    [i \in 1..3 |->
                       round_div(start[i] * steps + k * (end[i] - start[i]),
                                 steps)]]
              \o <<end>>)

\* graduate of src/utils.py at index s: round(start + step * (diff / steps))
standalone_graduate(start, stop, steps, s) ==
  round_div(start * steps + s * (stop - start), steps)

\* transition of src/utils.py
standalone_transition(a, b, steps) ==
  IF steps < 1 THEN Raise("ValueError")
  ELSE Return([k \in 1..steps |->
                 [i \in 1..3 |->
                    standalone_graduate(a[i], b[i], steps, k - 1)]])

TransitionColours ==
  {<<0, 0, 0>>, <<255, 0, 0>>, <<0, 255, 0>>, <<10, 20, 30>>,
   <<255, 255, 255>>}

InitTransition ==
  /\ \E a \in TransitionColours, steps \in 1..MaxSteps :
       \E b \in TransitionColours \ {a} :
         args = [a |-> a, b |-> b, steps |-> steps]
  /\ ret = NoCall
  /\ InitController

CallUtilsTransition ==
  /\ ret = NoCall
  /\ ret' = [fn |-> "utils",
             out |-> utils_transition(args.a, args.b, args.steps)]
  /\ UNCHANGED <<args, sd, ctlvars>>

CallRgbutilTransition ==
  /\ ret = NoCall
  /\ ret' = [fn |-> "rgbutil",
             out |-> rgbutil_transition(args.a, args.b, args.steps)]
  /\ UNCHANGED <<args, sd, ctlvars>>

CallStandaloneTransition ==
  /\ ret = NoCall
  /\ ret' = [fn |-> "standalone",
             out |-> standalone_transition(args.a, args.b, args.steps)]
  /\ UNCHANGED <<args, sd, ctlvars>>

NextTransition ==
  CallUtilsTransition \/ CallRgbutilTransition \/ CallStandaloneTransition

SpecTransition == InitTransition /\ [][NextTransition]_vars

(* C23 as amended: for steps >= 2 and colours a # b the two transition     *)
(* generators of the controller yield exactly steps colours, the first a   *)
(* and the last b.  For steps = 1 utils.transition yields a alone and      *)
(* rgbutil.transition yields a and b.  The stand-alone transition yields   *)
(* steps colours, the first a and the last the rounded point one step      *)
(* short of b.                                                             *)
C23_EndpointsFromTwoSteps ==
  Called =>
    LET a == args.a
        b == args.b
        S == args.steps
        out == ret.out.val
    IN /\ ret.out.err = "none"
       /\ out[1] = a
       /\ (ret.fn \in {"utils", "rgbutil"} /\ S >= 2) =>
            Len(out) = S /\ out[S] = b
       /\ (ret.fn = "utils" /\ S = 1) => out = <<a>>
       /\ (ret.fn = "rgbutil" /\ S = 1) => out = <<a, b>>
       /\ ret.fn = "standalone" =>
            /\ Len(out) = S
            /\ out[S] = [i \in 1..3 |->
                           round_div(a[i] * S + (S - 1) * (b[i] - a[i]), S)]

C23_Witness ==
  /\ Called /\ ret.fn = "utils" /\ args.steps = 3
  /\ args.a = <<10, 20, 30>> /\ args.b = <<255, 0, 0>>
  /\ ret.out.val = << <<10, 20, 30>>, <<92, 13, 20>>, <<255, 0, 0>> >>

(* C23 as stated: for every steps >= 1 and a # b, transition yields        *)
(* exactly steps colours, the first a and the last b.                      *)
C23_EndpointExact ==
  Called =>
    /\ ret.out.err = "none"
    /\ Len(ret.out.val) = args.steps
    /\ ret.out.val[1] = args.a
    /\ ret.out.val[args.steps] = args.b

----------------------------------------------------------------------------
(* The colour codec alone: as_tuple and as_int (utils.py and rgbutil.py,   *)
(* the same code twice) applied one after the other.  args holds a packed  *)
(* colour x and a triple t, ret the codec's intermediate and final value.  *)

\* packed colours: the ends of the range, each channel alone, mixed bits
PackedColours ==
  {0, 1, 255, 256, 257, 65535, 65536, 65537, 8421504, 1193046, 11259375,
   16711680, 16776960, 16777214, 16777215}

ByteSamples == {0, 1, 128, 255}

InitCodec ==
  /\ \E x \in PackedColours, r \in ByteSamples, g \in ByteSamples,
        b \in ByteSamples :
       args = [x |-> x, t |-> <<r, g, b>>]
  /\ ret = NoCall
  /\ InitController

\* as_int(as_tuple(x))
CallTupleThenInt ==
  /\ ret = NoCall
  /\ ret' = [fn |-> "as_int", mid |-> as_tuple(args.x),
             out |-> as_int(as_tuple(args.x))]
  /\ UNCHANGED <<args, sd, ctlvars>>

\* as_tuple(as_int(t))
CallIntThenTuple ==
  /\ ret = NoCall
  /\ ret' = [fn |-> "as_tuple", mid |-> <<as_int(args.t)>>,
             out |-> as_tuple(as_int(args.t))]
  /\ UNCHANGED <<args, sd, ctlvars>>

NextCodec == CallTupleThenInt \/ CallIntThenTuple

SpecCodec == InitCodec /\ [][NextCodec]_vars

(* C24: as_int(as_tuple(x)) = x for every packed colour x in              *)
(* [0, 0xFFFFFF], with as_tuple(x) a triple of bytes, and                  *)
(* as_tuple(as_int(t)) = t for every triple t of bytes, with as_int(t) in  *)
(* [0, 0xFFFFFF].                                                          *)
C24_CodecRoundTrip ==
  /\ ret.fn = "as_int" =>
       /\ ret.out = args.x
       /\ \A i \in 1..3 : ret.mid[i] \in 0..255
  /\ ret.fn = "as_tuple" =>
       /\ ret.out = args.t
       /\ ret.mid[1] \in 0..16777215

C24_Witness ==
  /\ ret.fn = "as_int" /\ args.x = 1193046
  /\ ret.mid = <<18, 52, 86>> /\ ret.out = 1193046

----------------------------------------------------------------------------
(* The preset loop: the routine that fades from one stored preset to the   *)
(* next (Animator.anim_buffers_loop with BufstoreAnimation in classes.py,  *)
(* Anim.anim_state_loop with Anim.each in code.py), run by the main loop   *)
(* while the card is taken out and put back.                               *)

MaxLoopTime == 3         \* the clock of the preset loop stops here
StateLoopSlots == 6      \* anim_state_loop: map(State.read, range(6))

\* a scan like that of readrepeat, over one slot more than it is asked for
RECURSIVE scan_slots(_, _, _, _)
scan_slots(e, i, tries, fail) ==
  IF tries = 0 THEN [e |-> e, i |-> i, err |-> "StopIteration", buf |-> <<>>]
  ELSE CHOOSE r \in
         {IF ~h.ok
            THEN scan_slots(h, absindex(i + 1, num_presets).val.v,
                            tries - 1, fail)
            ELSE [e |-> [h EXCEPT !.log = @ \o <<"open">>],
                  i |-> absindex(i + 1, num_presets).val.v,
                  err |-> IF fail THEN "OSError" ELSE "none",
                  buf |-> IF fail THEN <<>>
                          ELSE BufStore_reader(h.sd, i, num_pixels).vals] :
          h \in {IF num_pixels > 0 THEN BufStore_has(e, Some(i))
                 ELSE [e EXCEPT !.ok = FALSE]}} : TRUE

\* a readrepeat that scans all `size` slots, the one it last read too
readrepeat_whole(e, i, tries, fail) == scan_slots(e, i, tries + 1, fail)

\* one scan of BufstoreAnimation.readrepeat: store.read(i) for up to
\* `tries` slots from i; the first slot has() accepts is read whole by
\* tuple(reader), whose open() raises OSError when fail is set; no slot
\* found ends the generator
RECURSIVE readrepeat(_, _, _, _)
readrepeat(e, i, tries, fail) ==
  IF tries = 0 THEN [e |-> e, i |-> i, err |-> "StopIteration", buf |-> <<>>]
  ELSE CHOOSE r \in
         {IF ~h.ok
            THEN readrepeat(h, absindex(i + 1, num_presets).val.v,
                            tries - 1, fail)
            ELSE [e |-> [h EXCEPT !.log = @ \o <<"open">>],
                  i |-> absindex(i + 1, num_presets).val.v,
                  err |-> IF fail THEN "OSError" ELSE "none",
                  buf |-> IF fail THEN <<>>
                          ELSE BufStore_reader(h.sd, i, num_pixels).vals] :
          h \in {IF num_pixels > 0 THEN BufStore_has(e, Some(i))
                 ELSE [e EXCEPT !.ok = FALSE]}} : TRUE

\* tuple(map(next, its)) in buffer_transitions: frame k of the fade
buffer_frame(b1, b2, steps, k) ==
  [p \in PixelRange |->
     transition(as_tuple(b1[p + 1]), as_tuple(b2[p + 1]), steps, k)]

\* what next(self.it) gives: the producer a, the reader e, the exception
\* and the frame
Pulled(a, e, err, frame) == [a |-> a, e |-> e, err |-> err, frame |-> frame]

\* next(self.it) of a BufstoreAnimation: the first pull reads two
\* buffers, every steps-th pull after it one more; a pull that finds no
\* buffer ends the producer (StopIteration)
buffer_transitions(a, e, fails) ==
  IF a.pos = 0
    THEN CHOOSE n \in
           UNION {{IF r1.err # "none" THEN Pulled(a, r1.e, r1.err, NoBase)
                   ELSE IF r2.err # "none"
                     THEN Pulled(a, r2.e, r2.err, NoBase)
                   ELSE Pulled([a EXCEPT !.pos = 1, !.i = r2.i,
                                         !.b1 = r1.buf, !.b2 = r2.buf],
                               r2.e, "none",
                               buffer_frame(r1.buf, r2.buf, a.steps, 0)) :
                   r2 \in {IF r1.err # "none" THEN r1
                           ELSE readrepeat(r1.e, r1.i, num_presets - 1,
                                           fails[2])}} :
                  r1 \in {readrepeat(e, a.i, num_presets - 1, fails[1])}} :
           TRUE
  ELSE IF a.pos % a.steps = 0
    THEN CHOOSE n \in
           {IF r.err # "none" THEN Pulled(a, r.e, r.err, NoBase)
            ELSE Pulled([a EXCEPT !.pos = @ + 1, !.i = r.i,
                                  !.b1 = a.b2, !.b2 = r.buf],
                        r.e, "none",
                        buffer_frame(a.b2, r.buf, a.steps, 0)) :
            r \in {readrepeat(e, a.i, num_presets - 1, fails[1])}} : TRUE
  ELSE Pulled([a EXCEPT !.pos = @ + 1], e, "none",
              buffer_frame(a.b1, a.b2, a.steps, a.pos % a.steps))

\* the outcome of a step of the loop: the controller s, the reader d and
\* the exception that leaves the step, if any
Ran(s, d, e) == [s |-> s, sd |-> d, err |-> e]

\* Animation.run after next(self.it) gave the frame: tick writes and
\* shows, at is set
Animation_ticked(s, now, lag, n) ==
  [s EXCEPT !.pixels = tick_pixels(s.pixels, n.frame),
            !.written = tick_written(s.pixels, n.frame),
            !.shows = tick_shows(s.pixels, n.frame),
            !.anim = [n.a EXCEPT !.at = now + lag + s.anim.interval]]

\* an Animator.run that keeps an exhausted animation
Animator_run_keep(s, d, now, lag, fails) ==
  IF ~ready(s.anim, now) THEN Ran(s, d, "none")
  ELSE IF s.anim.kind # "buffers"
    THEN Ran(Animation_run(s, now, lag), d, "none")
  ELSE CHOOSE r \in
         {IF n.err = "StopIteration" THEN Ran(s, n.e.sd, "none")
          ELSE IF n.err # "none" THEN Ran(s, n.e.sd, n.err)
          ELSE Ran(Animation_ticked(s, now, lag, n), n.e.sd, "none") :
          n \in {buffer_transitions(s.anim, Env(d), fails)}} : TRUE

\* Animator.run: Animation.run under `except StopIteration: self.clear()`;
\* any other exception of the producer leaves run()
Animator_run(s, d, now, lag, fails) ==
  IF ~ready(s.anim, now) THEN Ran(s, d, "none")
  ELSE IF s.anim.kind # "buffers"
    THEN Ran(Animation_run(s, now, lag), d, "none")
  ELSE CHOOSE r \in
         {IF n.err = "StopIteration"
            THEN Ran(Animator_clear(s), n.e.sd, "none")
          ELSE IF n.err # "none" THEN Ran(s, n.e.sd, n.err)
          ELSE Ran(Animation_ticked(s, now, lag, n), n.e.sd, "none") :
          n \in {buffer_transitions(s.anim, Env(d), fails)}} : TRUE

\* tuple(filter(None, map(State.read, range(6)))): the states that were
\* read and are not empty, in slot order.  Every State.read checks the
\* mount again; a check after the first finds the reader as the first left
\* it.  The card holds files in Slots only.
State_read_all(d) ==
  LET c == SdReader_checkmount(Env(d)).sd
      reads == [k \in 1..StateLoopSlots |->
                  IF (k - 1) \in Slots THEN State_read(Env(c), k - 1).values
                  ELSE None]
      found == SelectSeq(reads, LAMBDA v : v.some /\ Len(v.v) > 0)
  IN [sd |-> c, states |-> [k \in 1..Len(found) |-> found[k].v]]

\* an anim_state_loop that starts with whatever it could read
Anim_anim_state_loop_any(s, d, quantity, now) ==
  LET r == State_read_all(d)
      iv == anim_speeds(quantity)
      short == \E k \in 1..Len(r.states) :
                 \/ Len(r.states[k]) < 2
                 \/ Len(r.states[k][2]) < num_pixels
  IN IF iv.err # "none" THEN Ran(Fail(s, iv.err), r.sd, "none")
     ELSE IF short THEN Ran(Fail(s, "IndexError"), r.sd, "none")
     ELSE Ran([s EXCEPT !.anim =
                 [some |-> TRUE, kind |-> "each", pos |-> 0,
                  interval |-> iv.val.v, at |-> now,
                  steps |-> WheelSteps * (quantity.v + 1),
                  base |-> NoBase, current |-> NoColor,
                  paths |-> [p \in PixelRange |->
                               [k \in 1..Len(r.states) |->
                                  as_tuple(r.states[k][2][p + 1])]]]],
              r.sd, "none")

\* Anim.anim_state_loop(speed): fewer than two states read raises
\* ValueError; pixel p then runs through state[1][p] of every state, an
\* IndexError where a state has no second entry or the entry no p-th part
Anim_anim_state_loop(s, d, quantity, now) ==
  LET r == State_read_all(d)
      iv == anim_speeds(quantity)
      short == \E k \in 1..Len(r.states) :
                 \/ Len(r.states[k]) < 2
                 \/ Len(r.states[k][2]) < num_pixels
  IN IF Len(r.states) < 2 THEN Ran(Fail(s, "ValueError"), r.sd, "none")
     ELSE IF iv.err # "none" THEN Ran(Fail(s, iv.err), r.sd, "none")
     ELSE IF short THEN Ran(Fail(s, "IndexError"), r.sd, "none")
     ELSE Ran([s EXCEPT !.anim =
                 [some |-> TRUE, kind |-> "each", pos |-> 0,
                  interval |-> iv.val.v, at |-> now,
                  steps |-> WheelSteps * (quantity.v + 1),
                  base |-> NoBase, current |-> NoColor,
                  paths |-> [p \in PixelRange |->
                               [k \in 1..Len(r.states) |->
                                  as_tuple(r.states[k][2][p + 1])]]]],
              r.sd, "none")

\* Anim.run with Anim.each: when due, every pixel pulls its next value and
\* is written once a pixel differed; at advances by the interval; a path
\* of fewer than two colours or a step count below 1 raises ValueError at
\* the pull
Anim_each(s, now) ==
  IF ~(s.anim.some /\ now - s.anim.at >= 0) THEN s
  ELSE IF s.anim.kind # "each" THEN Anim_run(s, now)
  ELSE IF s.anim.steps < 1 \/ \E p \in PixelRange : Len(s.anim.paths[p]) < 2
    THEN Fail(s, "ValueError")
  ELSE LET frame == [p \in PixelRange |->
                       transitions_repeat(s.anim.paths[p], s.anim.steps,
                                          s.anim.pos)]
       IN [s EXCEPT !.pixels = tick_pixels(s.pixels, frame),
                    !.written = tick_written(s.pixels, frame),
                    !.shows = tick_shows(s.pixels, frame),
                    !.anim = [@ EXCEPT !.pos = @ + 1,
                                       !.at = @ + s.anim.interval]]

\* the preset files on the card when the controller starts: none, and
\* presets written off the controller, in decimal (one line, two lines)
\* for BufStore, in decimal or as 'R,G,B' lines for State
PresetFiles(b) ==
  {NoFile,
   [exists |-> TRUE, lines |-> << <<"0">>, <<"2", "5", "5">> >>,
    buf |-> None],
   IF b = "app"
     THEN [exists |-> TRUE, lines |-> << <<"2", "5", "5">> >>, buf |-> None]
     ELSE [exists |-> TRUE,
           lines |-> [k \in 1..num_pixels |->
                        IF k = 1 THEN <<"0", ",", "0", ",", "2", "5", "5">>
                        ELSE <<"0", ",", "2", "5", "5", ",", "0">>],
           buf |-> None]}

\* the lines the link delivers here: the routine with and without a
\* speed, a brightness command, a command that clears the animation
LoopLines(b) ==
  {<<id>> \o body :
     id \in Ids,
     body \in {<<IF b = "app" THEN "L" ELSE "T">>,
               <<IF b = "app" THEN "L" ELSE "T", "0">>, <<"d">>, <<"x">>}}

\* which open() of a preset file raises OSError in one tick: none, the
\* first, the second
Fails == {<<FALSE, FALSE>>, <<TRUE, FALSE>>, <<FALSE, TRUE>>}

InitLoop ==
  /\ build \in {"app", "code"}
  /\ clock = 0 /\ pc = "run"
  /\ pixels = InitPixels
  /\ brightness = initial_brightness
  /\ selected = [pixel |-> None, hue |-> None]
  /\ speed = NumSpeeds \div 2
  /\ anim = NoAnim
  /\ lastid = NoId /\ execid = NoId
  /\ last = Obs
  /\ args = [verb |-> "clear", quantity |-> None, current |-> None,
             length |-> 0, loop |-> FALSE]
  /\ \E files \in [Slots -> PresetFiles(build)] :
       sd = [int_prefix |-> FALSE, enabled |-> TRUE, card |-> FALSE,
             inserted |-> TRUE, alive |-> FALSE, dir |-> TRUE,
             vfs |-> FALSE, fault |-> "none",
             files |-> files]
  /\ ret = [fn |-> "none", index |-> None, out |-> Return(FALSE),
            log |-> <<>>, shows |-> 0]

\* time passes: a millisecond, or up to the next due time
LoopTick ==
  /\ pc # "crashed"
  /\ \E t \in {clock + 1} \cup {anim.at} :
       /\ t > clock /\ t <= MaxLoopTime
       /\ clock' = t
  /\ last' = [Obs EXCEPT !.op = "tick"]
  /\ UNCHANGED <<args, ret, sd, build, pc, pixels, brightness, selected,
                 speed, anim, lastid, execid>>

\* App.loop, first half: self.animator.run(), outside the try block
LoopAnimatorRun ==
  /\ build = "app" /\ pc = "run"
  /\ \E lag \in Lags, fails \in Fails :
       /\ clock + lag <= MaxLoopTime
       /\ \E r \in {Animator_run(State, sd, clock, lag, fails)} :
            /\ Commit(r.s)
            /\ sd' = r.sd
            /\ clock' = IF ready(anim, clock) /\ r.s.anim.some
                           /\ r.err = "none"
                          THEN clock + lag ELSE clock
            /\ pc' = IF r.err = "none" THEN "read" ELSE "crashed"
            /\ last' = [Obs EXCEPT !.op = "run", !.due = ready(anim, clock),
                          !.pulled = r.s.anim.pos - anim.pos,
                          !.shows = r.s.shows, !.written = r.s.written,
                          !.err = r.err]
  /\ UNCHANGED <<args, ret, build, lastid, execid>>

\* App.loop, second half: read, parse and do under `except Exception`
LoopReadCommand ==
  /\ build = "app" /\ pc = "read"
  /\ \E line \in LoopLines(build) \cup {<<>>} :
     \E r \in {read(line, lastid)} :
     \E p \in {IF r.cmdstr.some THEN parse(r.cmdstr.v)
               ELSE [err |-> "none", cmd |-> NoCommand]} :
     \E s \in {IF r.cmdstr.some /\ p.err = "none"
                 THEN App_do(State, p.cmd, clock) ELSE State} :
     \E e \in {IF r.err # "none" THEN r.err
               ELSE IF p.err # "none" THEN p.err ELSE s.err} :
       /\ Commit(s)
       /\ lastid' = r.lastid
       /\ last' = [Obs EXCEPT !.op = "command", !.got = r.cmdstr.some,
                     !.what = p.cmd.what, !.verb = p.cmd.verb,
                     !.quantity = p.cmd.quantity,
                     !.shows = s.shows, !.written = s.written,
                     !.err = e, !.flash = e # "none"]
       /\ pc' = "run"
  /\ UNCHANGED <<args, ret, sd, build, clock, execid>>

\* code.py loop() when Command.read() returns nothing: Anim.run()
LoopLegacyIdle ==
  /\ build = "code" /\ pc = "run"
  /\ \E line \in {l \in LoopLines(build) \cup {<<>>} :
                    ~read(l, lastid).cmdstr.some} :
     \E r \in {read(line, lastid)} :
     \E s \in {Anim_each(State, clock)} :
       /\ Commit(s)
       /\ lastid' = r.lastid
       /\ pc' = IF s.err # "none" THEN "crashed" ELSE "run"
       /\ last' = [Obs EXCEPT !.op = "idle",
                     !.due = anim.some /\ clock - anim.at >= 0,
                     !.pulled = s.anim.pos - anim.pos,
                     !.shows = s.shows, !.written = s.written,
                     !.err = s.err]
  /\ UNCHANGED <<args, ret, sd, build, clock, execid>>

\* code.py loop() when a command string was read: parse, clear the
\* animation unless the command is a brightness command, do; the state
\* loop is the routine of Command.do that reads the card
LoopLegacyCommand ==
  /\ build = "code" /\ pc = "run"
  /\ \E line \in {l \in LoopLines(build) : read(l, lastid).cmdstr.some} :
     \E r \in {read(line, lastid)} :
     \E p \in {parse(r.cmdstr.v)} :
     \E s0 \in {IF p.err = "none" /\ p.cmd.what # "brightness"
                  THEN Animator_clear(State) ELSE State} :
     \E d \in {IF p.err # "none" THEN Ran(s0, sd, "none")
               ELSE IF p.cmd.what = "anim_state_loop"
                 THEN Anim_anim_state_loop(s0, sd, p.cmd.quantity, clock)
               ELSE Ran(Command_do(s0, p.cmd, clock), sd, "none")} :
       /\ Commit(d.s)
       /\ sd' = d.sd
       /\ lastid' = r.lastid
       /\ last' = [Obs EXCEPT !.op = "command", !.got = TRUE,
                     !.what = p.cmd.what, !.verb = p.cmd.verb,
                     !.quantity = p.cmd.quantity,
                     !.shows = d.s.shows, !.written = d.s.written,
                     !.err = IF p.err # "none" THEN p.err ELSE d.s.err,
                     !.flash = p.err # "none" \/ d.s.err # "none"]
  /\ UNCHANGED <<args, ret, build, clock, pc, execid>>

\* the card is pulled out of the slot, or pushed back in
LoopCard ==
  /\ pc # "crashed"
  /\ sd' = IF sd.inserted
             THEN [sd EXCEPT !.inserted = FALSE, !.alive = FALSE]
             ELSE [sd EXCEPT !.inserted = TRUE]
  /\ last' = [Obs EXCEPT !.op = "card"]
  /\ UNCHANGED <<args, ret, build, clock, pc, pixels, brightness, selected,
                 speed, anim, lastid, execid>>

NextLoop ==
  \/ LoopTick
  \/ LoopAnimatorRun
  \/ LoopReadCommand
  \/ LoopLegacyIdle
  \/ LoopLegacyCommand
  \/ LoopCard

SpecLoop == InitLoop /\ [][NextLoop]_vars

----------------------------------------------------------------------------
(* Properties of the preset loop *)

\* the slots BufStore.read would hand out now
ReadablePresets(d) == {i \in Slots : BufStore_has(Env(d), Some(i)).ok}

\* the slots State.read would return a state for now
ReadableStates(d) ==
  {i \in Slots : LET r == State_read(Env(d), i)
                 IN r.values.some /\ Len(r.values.v) > 0}

\* the producer of the animation, reading without an I/O error, has no
\* further frame
Exhausted(a, d) ==
  /\ a.some /\ a.kind = "buffers"
  /\ buffer_transitions(a, Env(d), <<FALSE, FALSE>>).err = "StopIteration"

C27_OnlyDifferingWritten ==
  [][(/\ build = "app" /\ last'.op = "run" /\ last'.due
      /\ last'.err = "none" /\ anim'.some) =>
       last'.written = {p \in PixelRange : pixels'[p] # pixels[p]}]_vars

(* C29: when the producer of the running animation is exhausted on a due  *)
(* tick, that tick leaves the animator idle, writes no pixel and flushes  *)
(* nothing; and a run() of an idle animator changes nothing, so every     *)
(* later run() is a no-op until a command selects a routine.              *)
C29_ExhaustionIdles ==
  [][(build = "app" /\ last'.op = "run") =>
       /\ (last'.due /\ Exhausted(anim, sd) /\ last'.err = "none") =>
            /\ anim' = NoAnim
            /\ pixels' = pixels /\ last'.shows = 0 /\ last'.written = {}
            /\ pc' = "read"
       /\ ~anim.some =>
            /\ UNCHANGED <<pixels, anim, sd, brightness, speed, selected>>
            /\ ~last'.due /\ last'.shows = 0 /\ last'.written = {}]_vars

\* a due tick has just ended the animation: the animator is idle and the
\* strip is as it was before the routine was started
C29_Witness ==
  /\ build = "app" /\ last.op = "run" /\ last.due /\ last.err = "none"
  /\ ~anim.some /\ last.shows = 0 /\ last.written = {} /\ pc = "read"
  /\ pixels = InitPixels

(* C30: when the producer raises an error other than exhaustion during a  *)
(* due tick, the animator returns to idle and the main loop continues.    *)
C30_ProducerErrorIdles ==
  [][(build = "app" /\ last'.op = "run" /\ last'.err # "none") =>
       (anim' = NoAnim /\ pc' # "crashed")]_vars

----------------------------------------------------------------------------
(* The keyframe generators: utils.transitions and utils.buffer_transitions *)
(* (controller/utils.py) and rgbutil.transitions (controller/rgbutil.py),  *)
(* each over a finite path.  All three are generator functions: the call   *)
(* runs none of the body and returns a generator, the first next() runs    *)
(* the body up to its first yield.  args holds the path and the step       *)
(* count; ret holds the generator: fn, whether it exists (made), whether   *)
(* it has ended (done), the frames pulled so far (out) and the outcome of  *)
(* the call or of the last next() (err).                                   *)

MaxKeyframes == 3

\* the paths: up to MaxKeyframes colours of the wheel, neighbours distinct
Paths ==
  UNION {{q \in [1..n -> {WheelPath[1], WheelPath[2], WheelPath[3]}] :
            \A k \in 1..(n - 1) : q[k] # q[k + 1]} : n \in 0..MaxKeyframes}

NoGenerator ==
  [fn |-> "none", made |-> FALSE, done |-> FALSE, out |-> <<>>,
   err |-> "none"]

\* calling a generator function: no statement of the body runs
generator(fn) == [NoGenerator EXCEPT !.fn = fn, !.made = TRUE]

\* the frames one keyframe-to-keyframe transition yields
segment(fn, a, b, steps) ==
  IF fn = "rgbutil" THEN rgbutil_transition(a, b, steps).val
  ELSE utils_transition(a, b, steps).val

\* the frames of the transition from keyframe k to keyframe k + 1, as the
\* generator yields them
frames_between(fn, path, steps, k) ==
  segment(fn, path[k], path[k + 1], steps)

\* every frame the generator yields, run to its end: `yield from
\* transition(a, b, steps)` for each pair of neighbours
RECURSIVE frames_from(_, _, _, _)
frames_from(fn, path, steps, k) ==
  IF k >= Len(path) THEN <<>>
  ELSE frames_between(fn, path, steps, k)
       \o frames_from(fn, path, steps, k + 1)

\* next(g): utils.transitions and buffer_transitions return (StopIteration)
\* on a path of fewer than two keyframes, rgbutil.transitions raises
\* ValueError for it; transition raises ValueError for steps < 1 at its
\* own first next(), which buffer_transitions never reaches (its loop over
\* range(steps) is empty, so it runs through the finite source and
\* returns); an exception ends the generator
generator_next(g, path, steps) ==
  IF g.done THEN [g EXCEPT !.err = "StopIteration"]
  ELSE IF Len(path) < 2
    THEN [g EXCEPT !.done = TRUE,
                   !.err = IF g.fn = "rgbutil" THEN "ValueError"
                           ELSE "StopIteration"]
  ELSE IF steps < 1
    THEN [g EXCEPT !.done = TRUE,
                   !.err = IF g.fn = "buffers" THEN "StopIteration"
                           ELSE "ValueError"]
  ELSE IF Len(g.out) >= Len(frames_from(g.fn, path, steps, 1))
    THEN [g EXCEPT !.done = TRUE, !.err = "StopIteration"]
  ELSE [g EXCEPT !.out = Append(@, frames_from(g.fn, path, steps, 1)
                                     [Len(g.out) + 1]),
                 !.err = "none"]

InitPath ==
  /\ \E path \in Paths, steps \in 0..MaxSteps :
       args = [path |-> path, steps |-> steps]
  /\ ret = NoGenerator
  /\ InitController

\* transitions(path, steps) / buffer_transitions(bufs, steps) is called
CallGenerator ==
  /\ ~ret.made
  /\ \E fn \in {"utils", "rgbutil", "buffers"} : ret' = generator(fn)
  /\ UNCHANGED <<args, sd, ctlvars>>

\* next() on the generator
NextFrame ==
  /\ ret.made /\ ret.err # "StopIteration"
  /\ ret' = generator_next(ret, args.path, args.steps)
  /\ UNCHANGED <<args, sd, ctlvars>>

NextPath == CallGenerator \/ NextFrame

SpecPath == InitPath /\ [][NextPath]_vars

(* C31: over a path of more than two keyframes the generator does not     *)
(* emit a shared keyframe twice: no two adjacent frames are both equal to *)
(* a keyframe that is neither the first nor the last of the path.         *)
C31_NoDuplicateKeyframe ==
  (ret.made /\ Len(args.path) > 2) =>
    \A j \in 1..(Len(ret.out) - 1), k \in 2..(Len(args.path) - 1) :
      ~(ret.out[j] = args.path[k] /\ ret.out[j + 1] = args.path[k])

(* C32: a generator built from fewer than two keyframes, or with a step   *)
(* count below 1, fails when it is constructed: the call raises and no    *)
(* generator exists.                                                      *)
C32_FailsAtConstruction ==
  (ret.fn # "none" /\ (Len(args.path) < 2 \/ args.steps < 1)) =>
    (~ret.made /\ ret.err = "ValueError")

----------------------------------------------------------------------------
(* Specification of the dispatch alone: App.do (app.py) and Command.do     *)
(* (code.py) called with any command, also one whose (what, verb) is no    *)
(* action of the table, in any state earlier commands have left.           *)

DoCommands ==
  {[what |-> what, verb |-> verb, quantity |-> quantity] :
     what \in {"pixel", "red", "speed", "func_draw", "anim_wheel_loop",
               "bogus"},
     verb \in {"set", "clear", "run"},
     quantity \in {None, Some(1)}}

Done(cmd, s) ==
  /\ Commit(s)
  /\ last' = [Obs EXCEPT !.op = "do", !.got = TRUE, !.what = cmd.what,
                !.verb = cmd.verb, !.quantity = cmd.quantity,
                !.shows = s.shows, !.written = s.written, !.err = s.err]
  /\ UNCHANGED <<args, ret, sd, build, clock, pc, lastid, execid>>

\* App.do(cmd)
DoApp ==
  /\ build = "app"
  /\ \E cmd \in DoCommands : Done(cmd, App_do(State, cmd, clock))

\* Command.do(what, verb, quantity)
DoLegacy ==
  /\ build = "code"
  /\ \E cmd \in DoCommands : Done(cmd, Command_do(State, cmd, clock))

NextDo == DoApp \/ DoLegacy

SpecDo == Init /\ [][NextDo]_vars

(* C35: a command whose (what, verb) pair is not in the valid-action set  *)
(* is rejected before any state is touched: it raises ValueError, and the *)
(* active animation, the selected pixel and hue, the pixel buffer,        *)
(* brightness and speed are as before; nothing is written or shown.       *)
C35_InvalidActionTouchesNothing ==
  [][(last'.op = "do" /\ <<last'.what, last'.verb>> \notin CODES) =>
       /\ last'.err = "ValueError"
       /\ last'.shows = 0 /\ last'.written = {}
       /\ UNCHANGED <<anim, selected, pixels, brightness, speed>>]_vars

C35_Witness ==
  /\ last.op = "do" /\ <<last.what, last.verb>> \notin CODES
  /\ last.what = "pixel" /\ last.err = "ValueError"
  /\ (anim.some \/ selected.pixel.some)
  /\ pixels # InitPixels

----------------------------------------------------------------------------
(* Specification of the keyframe source alone: the generator              *)
(* BufstoreAnimation.readrepeat(store) pulled again and again while the   *)
(* card is taken out and put back.  ret holds the generator: its index i, *)
(* the slots it has yielded (out), whether it has ended (done), and       *)
(* whether the card has been in the slot all the time (steady).           *)

MaxYields == 4

Source == [i |-> 0, out |-> <<>>, done |-> FALSE, steady |-> TRUE]

InitRepeat ==
  /\ build = "app"
  /\ clock = 0 /\ pc = "run"
  /\ pixels = InitPixels
  /\ brightness = initial_brightness
  /\ selected = [pixel |-> None, hue |-> None]
  /\ speed = NumSpeeds \div 2
  /\ anim = NoAnim
  /\ lastid = NoId /\ execid = NoId
  /\ last = Obs
  /\ args = [verb |-> "clear", quantity |-> None, current |-> None,
             length |-> 0, loop |-> FALSE]
  /\ \E files \in [Slots -> PresetFiles(build)] :
       sd = [int_prefix |-> FALSE, enabled |-> TRUE, card |-> FALSE,
             inserted |-> TRUE, alive |-> FALSE, dir |-> TRUE,
             vfs |-> FALSE, fault |-> "none",
             files |-> files]
  /\ ret = Source

\* next() on the generator: one scan
PullBuffer ==
  /\ ~ret.done /\ Len(ret.out) < MaxYields
  /\ \E r \in {readrepeat(Env(sd), ret.i, num_presets - 1, FALSE)} :
       /\ sd' = r.e.sd
       /\ ret' = IF r.err = "StopIteration"
                   THEN [ret EXCEPT !.i = r.i, !.done = TRUE]
                   ELSE [ret EXCEPT
                           !.i = r.i,
                           !.out = Append(@, absindex(r.i - 1,
                                                num_presets).val.v)]
  /\ UNCHANGED <<args, ctlvars>>

\* the card is pulled out, or pushed back in
RepeatCard ==
  /\ ~ret.done
  /\ sd' = IF sd.inserted
             THEN [sd EXCEPT !.inserted = FALSE, !.alive = FALSE]
             ELSE [sd EXCEPT !.inserted = TRUE]
  /\ ret' = [ret EXCEPT !.steady = FALSE]
  /\ UNCHANGED <<args, ctlvars>>

NextRepeat == PullBuffer \/ RepeatCard

SpecRepeat == InitRepeat /\ [][NextRepeat]_vars

\* slot j can be read: the card is there and the file has a line int()
\* accepts
PresetReadable(d, j) ==
  /\ d.enabled /\ d.inserted /\ num_pixels > 0
  /\ d.files[j].exists
  /\ Len(parsed(d.files[j].lines, d.int_prefix)) > 0

\* the slots the next scan looks at, in order: size - 1 of them from i
ScanOrder(i) ==
  [k \in 1..(num_presets - 1) |-> (i + k - 1) % num_presets]

\* one next(): it ends the source exactly when no slot of the scan is
\* readable, else it yields the first readable slot of the scan, which is
\* not the slot yielded before
C36_Scan ==
  [][(ret'.i # ret.i \/ ret'.done # ret.done
      \/ ret'.out # ret.out) =>
       LET g == ret
           scan == ScanOrder(g.i)
           hits == {k \in DOMAIN scan : PresetReadable(sd, scan[k])}
           first == CHOOSE k \in hits : \A m \in hits : k <= m
       IN /\ ret'.done <=> hits = {}
          /\ hits = {} => ret'.out = g.out
          /\ hits # {} => ret'.out = Append(g.out, scan[first])
          /\ \A n \in 1..(Len(ret'.out) - 1) :
               ret'.out[n] # ret'.out[n + 1]]_vars

\* with two or more readable slots that stay readable it never ends
C36_NeverEnds ==
  (/\ ret.steady
   /\ Cardinality({j \in Slots : PresetReadable(sd, j)}) >= 2) =>
    ~ret.done

C36_WitnessEnds ==
  /\ ret.done /\ Len(ret.out) >= 1
  /\ sd.inserted

----------------------------------------------------------------------------
(* Specification of the link: the remote (remote/code.py App.send_command, *)
(* remote/utils.py cmdid_gen) writes each command as command_redundancy +  *)
(* 1 lines under the next id; the link holds the lines in order and may    *)
(* drop one or repeat one, as long as one copy of every command arrives;   *)
(* the controller reads them with Commander.read.  args holds the          *)
(* redundancy; ret holds the number of commands sent, the lines on the     *)
(* link, each with the number of its command, the number of the last       *)
(* command a copy of which arrived, and the number of commands executed.   *)

MaxCommands == 64
MaxRedundancy == 1
MaxOnLink == 3

\* the ids of cmdid_gen in order: '0'..'9', 'a'..'z', 'A'..'Z'
cmdid_alphabet ==
  <<"0", "1", "2", "3", "4", "5", "6", "7", "8", "9", "a", "b", "c", "d",
    "e", "f", "g", "h", "i", "j", "k", "l", "m", "n", "o", "p", "q", "r",
    "s", "t", "u", "v", "w", "x", "y", "z", "A", "B", "C", "D", "E", "F",
    "G", "H", "I", "J", "K", "L", "M", "N", "O", "P", "Q", "R", "S", "T",
    "U", "V", "W", "X", "Y", "Z">>

\* an id generator that never advances
cmdid_stuck(n) == cmdid_alphabet[1]

\* the n-th id next(self.idgen) returns, n from 0: the ranges over and over
cmdid_gen(n) == cmdid_alphabet[(n % Len(cmdid_alphabet)) + 1]

\* what the remote sends after the id: CODES[what, verb] and the quantity
SentBodies == {<<"b", "1">>, <<"N">>}

\* App.send_command: the line of the n-th command, written redundancy + 1
\* times
send_command(n, body, redundancy) ==
  [k \in 1..(redundancy + 1) |-> [seq |-> n + 1,
                                  line |-> <<cmdid_gen(n)>> \o body]]

InitLink ==
  /\ InitController
  /\ build = "app"
  /\ \E redundancy \in 0..MaxRedundancy : args = [redundancy |-> redundancy]
  /\ ret = [sent |-> 0, link |-> <<>>, arrived |-> 0, executed |-> 0]

Linked(r, id, op, got, cmdstr) ==
  /\ ret' = r
  /\ lastid' = id
  /\ last' = [Obs EXCEPT !.op = op, !.got = got, !.quantity = cmdstr]
  /\ UNCHANGED <<args, sd, build, clock, pc, pixels, brightness, selected,
                 speed, anim, execid>>

\* the remote sends a command
Send ==
  /\ ret.sent < MaxCommands
  /\ Len(ret.link) + args.redundancy + 1 <= MaxOnLink
  /\ \E body \in SentBodies :
       Linked([ret EXCEPT !.sent = @ + 1,
                          !.link = @ \o send_command(ret.sent, body,
                                                     args.redundancy)],
              lastid, "send", FALSE, None)

Without(q, i) == SubSeq(q, 1, i - 1) \o SubSeq(q, i + 1, Len(q))

\* the link loses a line that is not the only copy of a command still to
\* arrive
Drop ==
  \E i \in DOMAIN ret.link :
    /\ \/ ret.link[i].seq <= ret.arrived
       \/ \E j \in DOMAIN ret.link \ {i} : ret.link[j].seq = ret.link[i].seq
    /\ Linked([ret EXCEPT !.link = Without(@, i)], lastid, "drop", FALSE,
              None)

\* the link carries a line twice
Repeat ==
  /\ Len(ret.link) < MaxOnLink
  /\ \E i \in DOMAIN ret.link :
       Linked([ret EXCEPT !.link = SubSeq(@, 1, i) \o SubSeq(@, i, Len(@))],
              lastid, "repeat", FALSE, None)

\* App.loop: commander.read() takes the first line on the link; a command
\* string it returns is parsed and done
Deliver ==
  /\ Len(ret.link) > 0
  /\ \E r \in {read(ret.link[1].line, lastid)} :
       Linked([ret EXCEPT !.link = Tail(@),
                          !.arrived = Max(@, ret.link[1].seq),
                          !.executed = IF r.cmdstr.some THEN @ + 1 ELSE @],
              r.lastid, "deliver", r.cmdstr.some,
              IF r.cmdstr.some THEN Some(r.cmdstr.v) ELSE None)

NextLink == Send \/ Drop \/ Repeat \/ Deliver

SpecLink == InitLink /\ [][NextLink]_vars

\* a line that arrives is executed exactly when it is the first copy of
\* its command to arrive, the command is the next in the order sent, and
\* what is executed is what was sent
C34_Order ==
  [][last'.op = "deliver" =>
       LET first == ret.link[1]
       IN /\ last'.got <=> first.seq > ret.arrived
          /\ last'.got =>
               /\ first.seq = ret.executed + 1
               /\ last'.quantity = Some(Tail(first.line))]_vars

\* every command a copy of which has arrived was executed once; with
\* nothing left on the link, every command sent
C34_Once ==
  /\ ret.executed = ret.arrived
  /\ Len(ret.link) = 0 => ret.executed = ret.sent

(* C34: the remote sends each command as command_redundancy + 1 identical *)
(* lines under one id and takes the next id of the 62-character alphabet  *)
(* for the next command; if the link drops or repeats lines but delivers  *)
(* in order at least one copy of every command, the controller executes   *)
(* every command exactly once and in the order sent.                      *)
C34_Delivery == C34_Order /\ []C34_Once

C34_Witness ==
  /\ ret.sent = MaxCommands /\ ret.executed = MaxCommands
  /\ Len(ret.link) = 0 /\ last.op = "deliver" /\ ~last.got
  /\ lastid = Some(cmdid_alphabet[2])

----------------------------------------------------------------------------
(* Specification of the key repeat of the remote: Repeater                 *)
(* (remote/utils.py) driven by App.loop and App.handle (remote/code.py).   *)
(* ret holds the repeater (at, cmd) and, as history, the time of the last  *)
(* schedule (since); clock is ticks_ms().                                   *)

repeat_threshold == 1000
repeat_interval == 50

MaxRemoteTime == 1200

\* how far the clock moves between two loop iterations
RemoteSteps == {10, 50, 200, 1000}

NoRepeat == [at |-> None, cmd |-> None]

\* Repeater.clear
Repeater_clear(r) == [r EXCEPT !.at = None, !.cmd = None]

\* Repeater.schedule
Repeater_schedule(r, cmd, now) ==
  [r EXCEPT !.cmd = Some(cmd), !.at = Some(now + repeat_threshold)]

\* a repeater that is ready as soon as it is scheduled
ready_at_once(r, now) == r.at.some

\* Repeater.ready
Repeater_ready(r, now) == r.at.some /\ now - r.at.v >= 0

\* Repeater.tick: the due time moves on and func(self.cmd) sends
Repeater_tick(r) == [r EXCEPT !.at = Some(r.at.v + repeat_interval)]

\* the commands of the change keys with no control key held and the first
\* colour selected (App.get_change_command)
ChangeCommands ==
  {[what |-> "brightness", verb |-> "plus", quantity |-> Some(1)],
   [what |-> "brightness", verb |-> "minus", quantity |-> Some(1)]}

InitRemote ==
  /\ InitController
  /\ build = "app"
  /\ args = [verb |-> "clear", quantity |-> None, current |-> None,
             length |-> 0, loop |-> FALSE]
  /\ ret = [rep |-> NoRepeat, since |-> 0]

Remote(r, since, op, sent, cmd) ==
  /\ ret' = [rep |-> r, since |-> since]
  /\ last' = [Obs EXCEPT !.op = op, !.got = sent, !.quantity = cmd]
  /\ UNCHANGED <<args, sd, build, pc, pixels, brightness, selected, speed,
                 anim, lastid, execid>>

\* App.loop without a key event: repeater.run()
RemoteIdle ==
  /\ clock' = clock
  /\ IF Repeater_ready(ret.rep, clock)
       THEN Remote(Repeater_tick(ret.rep), ret.since, "idle", TRUE,
                   ret.rep.cmd)
       ELSE Remote(ret.rep, ret.since, "idle", FALSE, None)

\* App.loop with the press of a change key: repeater.clear(), then handle
\* schedules the command and sends it
KeyPress ==
  /\ clock' = clock
  /\ \E cmd \in ChangeCommands :
       Remote(Repeater_schedule(Repeater_clear(ret.rep), cmd, clock), clock,
              "press", TRUE, Some(cmd))

\* App.loop with a release, or with the press of a meta or control key:
\* repeater.clear(), then handle schedules nothing
KeyOther ==
  /\ clock' = clock
  /\ Remote(Repeater_clear(ret.rep), ret.since, "release", FALSE, None)

\* time passes between two iterations
RemoteTick ==
  /\ \E d \in RemoteSteps :
       /\ clock + d <= MaxRemoteTime
       /\ clock' = clock + d
  /\ Remote(ret.rep, ret.since, "tick", FALSE, None)

NextRemote == RemoteIdle \/ KeyPress \/ KeyOther \/ RemoteTick

SpecRemote == InitRemote /\ [][NextRemote]_vars

(* C38: after schedule(cmd) the repeater sends no repeat before            *)
(* repeat_threshold ms have passed, then re-sends the same command at most *)
(* once per loop iteration, advancing its due time by repeat_interval each *)
(* time; any key event clears it before the event is handled, and after a *)
(* clear no repeat is sent until the next schedule.                        *)
C38_KeyRepeat ==
  [][/\ (last'.op = "idle" /\ last'.got) =>
          /\ ret.rep.at.some /\ ret.rep.cmd.some
          /\ clock - ret.since >= repeat_threshold
          /\ last'.quantity = ret.rep.cmd
          /\ ret'.rep.cmd = ret.rep.cmd
          /\ ret'.rep.at = Some(ret.rep.at.v + repeat_interval)
     /\ (last'.op = "idle" /\ ~ret.rep.at.some) =>
          (~last'.got /\ ret'.rep = ret.rep)
     /\ last'.op = "release" => ret'.rep = NoRepeat
     /\ last'.op = "press" =>
          /\ ret'.rep.at = Some(clock + repeat_threshold)
          /\ ret'.rep.cmd = last'.quantity]_vars

C38_Witness ==
  /\ last.op = "idle" /\ last.got
  /\ ret.rep.at = Some(ret.since + repeat_threshold + 2 * repeat_interval)
  /\ clock >= ret.since + repeat_threshold + repeat_interval
  /\ ret.since > 0

----------------------------------------------------------------------------
(* Specification of the push button of the plain rotary encoder:           *)
(* PlainRotary.run (src/classes.py) called again and again while the       *)
(* button goes down and up, the knob turns and time passes.  clock is      *)
(* ticks_ms(), which wraps at 2^29.  ret holds the fields of the object    *)
(* (rot), whether the button is down, the time gone by since Init, the     *)
(* number of runs in which the clock moved on, and, as history, whether a  *)
(* completed push-release awaits its window (pending).                      *)

rotary_double_push_period == 50

MaxRotaryTime == 1200
MaxLagged == 1

\* adafruit_ticks: ticks_ms() counts modulo 2^29
TicksPeriod == 2 ^ 29

\* adafruit_ticks.ticks_add
ticks_add(t, d) == (t + d) % TicksPeriod

\* adafruit_ticks.ticks_diff: the signed distance from b to a
ticks_diff(a, b) ==
  ((a - b + TicksPeriod \div 2) % TicksPeriod) - TicksPeriod \div 2

\* bool(x) of an int|None field: None and 0 are false
truthy(x) == x.some /\ x.v # 0

\* `if self.last_release_at:`
has_release(r) == truthy(r.last_release_at)

NoRotary ==
  [button_state |-> FALSE, first_push_at |-> None, last_release_at |-> None,
   last_push_at |-> None]

\* what run() did: the object, the events emitted, the value returned
Ran_rotary(r, out, val) == [rot |-> r, out |-> out, val |-> val]

\* PlainRotary.run: now is ticks_ms() at the first test, later what the
\* later calls return; change is the movement of the knob since the last
\* run, down whether the button is pressed (button.value is False)
PlainRotary_run(r, now, later, change, down) ==
  IF has_release(r)
     /\ ticks_diff(now, r.first_push_at.v) > rotary_double_push_period * 10
    THEN Ran_rotary([r EXCEPT !.first_push_at = None,
                              !.last_release_at = None],
                    <<"push", "release">>, TRUE)
  ELSE IF change > 0 THEN Ran_rotary(r, <<"increment">>, TRUE)
  ELSE IF change < 0 THEN Ran_rotary(r, <<"decrement">>, TRUE)
  ELSE IF down /\ ~r.button_state
    THEN Ran_rotary([r EXCEPT !.button_state = TRUE,
                              !.last_push_at = Some(later)], <<>>, FALSE)
  ELSE IF ~down /\ r.button_state
    THEN IF has_release(r)
            /\ ticks_diff(later, r.first_push_at.v)
                 <= rotary_double_push_period * 10
           THEN Ran_rotary([r EXCEPT !.button_state = FALSE,
                                     !.first_push_at = None,
                                     !.last_release_at = None],
                           <<"double_push">>, TRUE)
           ELSE Ran_rotary([r EXCEPT !.button_state = FALSE,
                                     !.first_push_at = r.last_push_at,
                                     !.last_release_at = Some(later)],
                           <<>>, FALSE)
  ELSE Ran_rotary(r, <<>>, FALSE)

\* the values of ticks_ms() at Init: well before the wrap, and just before
RotaryStarts == {1000, TicksPeriod - 200}

RotarySteps == {100, 300}

InitRotary ==
  /\ build = "app"
  /\ clock \in RotaryStarts
  /\ pc = "run"
  /\ pixels = InitPixels
  /\ brightness = initial_brightness
  /\ selected = [pixel |-> None, hue |-> None]
  /\ speed = NumSpeeds \div 2
  /\ anim = NoAnim
  /\ lastid = NoId /\ execid = NoId
  /\ last = Obs
  /\ sd = NoCard
  /\ args = [verb |-> "clear", quantity |-> None, current |-> None,
             length |-> 0, loop |-> FALSE]
  /\ ret = [rot |-> NoRotary, down |-> FALSE, elapsed |-> 0, lagged |-> 0,
            pending |-> FALSE]

Rotated(r, op, out, val) ==
  /\ ret' = r
  /\ last' = [Obs EXCEPT !.op = op, !.quantity = out, !.got = val]
  /\ UNCHANGED <<args, sd, build, pc, pixels, brightness, selected, speed,
                 anim, lastid, execid>>

\* one call of run(); the later calls of ticks_ms() return the time of the
\* first or, in at most MaxLagged runs, a millisecond more
RotaryRun ==
  \E lag \in Lags, change \in {-1, 0, 1} :
    /\ ret.elapsed + lag <= MaxRotaryTime
    /\ ret.lagged + lag <= MaxLagged
    /\ clock' = ticks_add(clock, lag)
    /\ \E x \in {PlainRotary_run(ret.rot, clock, ticks_add(clock, lag),
                                 change, ret.down)} :
         Rotated([ret EXCEPT
                    !.rot = x.rot,
                    !.elapsed = @ + lag,
                    !.lagged = @ + lag,
                    !.pending =
                      IF Len(x.out) > 0 /\ x.out[1] \in {"push", "double_push"}
                        THEN FALSE
                      ELSE IF ret.rot.button_state /\ ~x.rot.button_state
                        THEN TRUE
                      ELSE @],
                 "run", x.out, x.val)

\* the button is pushed, or let go
ButtonMoves ==
  /\ clock' = clock
  /\ Rotated([ret EXCEPT !.down = ~@], "button", <<>>, FALSE)

RotaryTick ==
  \E d \in RotarySteps :
    /\ ret.elapsed + d <= MaxRotaryTime
    /\ clock' = ticks_add(clock, d)
    /\ Rotated([ret EXCEPT !.elapsed = @ + d], "tick", <<>>, FALSE)

NextRotary == RotaryRun \/ ButtonMoves \/ RotaryTick

SpecRotary == InitRotary /\ [][NextRotary]_vars

\* the double-push window has expired for the pending push-release
WindowOver(now) ==
  ticks_diff(now, ret.rot.first_push_at.v) > rotary_double_push_period * 10

(* C39: a push-release that is not followed by a second release within    *)
(* the double-push window emits exactly 'push' then 'release', and only    *)
(* after the window has expired; two push-release cycles completed within  *)
(* the window emit exactly one 'double_push' and no 'push' or 'release';   *)
(* in both cases first_push_at and last_release_at are None afterwards.    *)
C39_ButtonDecoding ==
  [][last'.op = "run" =>
       LET out == last'.quantity
           second == ret.rot.button_state /\ ~ret'.rot.button_state
       IN /\ (ret.pending /\ WindowOver(clock)) =>
               out = <<"push", "release">>
          /\ (ret.pending /\ ~WindowOver(clock) /\ second
              /\ ~WindowOver(clock')) =>
               out = <<"double_push">>
          /\ (ret.pending /\ out = <<>>) =>
               /\ ret'.pending
               /\ ret'.rot.first_push_at = ret.rot.first_push_at
          /\ (out # <<>> /\ out[1] = "push") =>
               (ret.pending /\ WindowOver(clock)
                /\ out = <<"push", "release">>)
          /\ (out # <<>> /\ out[1] = "double_push") =>
               (ret.pending /\ ~WindowOver(clock') /\ out = <<"double_push">>)
          /\ (out # <<>> /\ out[1] \in {"push", "double_push"}) =>
               /\ ret'.rot.first_push_at = None
               /\ ret'.rot.last_release_at = None]_vars

----------------------------------------------------------------------------
(* Specification of the key decoder: Buttons.run (src/classes.py, and the  *)
(* same code in src/standalone/classes.py) given the events of the keypad  *)
(* in any order while time passes.  ret holds the KeyState of every key    *)
(* (states), the time gone by since Init and, as history, for every key    *)
(* the time of its last press event (since) and the keys whose last event  *)
(* was a press (down).                                                     *)

buttons_long_duration_ms == 1000

NumKeys == 2
MaxButtonsTime == 1600

Keys == 0..(NumKeys - 1)

NoKeyState == [pressed_at |-> None, released_at |-> None]

\* a press type that is 'long' only beyond the threshold
presstype_beyond(duration) ==
  IF duration > buttons_long_duration_ms THEN "long" ELSE "short"

\* `'long' if duration >= self.long_duration_ms else 'short'`
presstype(duration) ==
  IF duration >= buttons_long_duration_ms THEN "long" ELSE "short"

\* Buttons.run with an event in the queue: the states after it and the
\* KeyEvent it returns, if any
Buttons_run(states, key, pressed, now) ==
  IF pressed
    THEN [states |-> [states EXCEPT ![key].pressed_at = Some(now)],
          event |-> None]
  ELSE IF ~states[key].pressed_at.some
    THEN [states |-> [states EXCEPT ![key].released_at = None],
          event |-> None]
  ELSE [states |->
          [i \in Keys |->
             IF i = key THEN [pressed_at |-> None, released_at |-> Some(now)]
             ELSE [states[i] EXCEPT !.released_at = None]],
        event |->
          Some([key |-> key,
                type |-> presstype(ticks_diff(now, states[key].pressed_at.v)),
                held |-> {i \in Keys \ {key} : states[i].pressed_at.some}])]

ButtonsStarts == {1000, TicksPeriod - 500}

ButtonsSteps == {400, 600}

InitButtons ==
  /\ build = "app"
  /\ clock \in ButtonsStarts
  /\ pc = "run"
  /\ pixels = InitPixels
  /\ brightness = initial_brightness
  /\ selected = [pixel |-> None, hue |-> None]
  /\ speed = NumSpeeds \div 2
  /\ anim = NoAnim
  /\ lastid = NoId /\ execid = NoId
  /\ last = Obs
  /\ sd = NoCard
  /\ args = [verb |-> "clear", quantity |-> None, current |-> None,
             length |-> 0, loop |-> FALSE]
  /\ ret = [states |-> [k \in Keys |-> NoKeyState], elapsed |-> 0,
            since |-> [k \in Keys |-> 0], down |-> {}]

Keyed(r, op, key, kind, event) ==
  /\ ret' = r
  /\ last' = [Obs EXCEPT !.op = op, !.pulled = key, !.verb = kind,
                         !.quantity = event]
  /\ UNCHANGED <<args, sd, build, pc, pixels, brightness, selected, speed,
                 anim, lastid, execid>>

\* run() takes a press event from the queue
KeyPressed ==
  /\ clock' = clock
  /\ \E key \in Keys :
       \E x \in {Buttons_run(ret.states, key, TRUE, clock)} :
         Keyed([ret EXCEPT !.states = x.states,
                           !.since[key] = ret.elapsed,
                           !.down = @ \cup {key}],
               "event", key, "press", x.event)

\* run() takes a release event from the queue
KeyReleased ==
  /\ clock' = clock
  /\ \E key \in Keys :
       \E x \in {Buttons_run(ret.states, key, FALSE, clock)} :
         Keyed([ret EXCEPT !.states = x.states, !.down = @ \ {key}],
               "event", key, "release", x.event)

ButtonsTick ==
  \E d \in ButtonsSteps :
    /\ ret.elapsed + d <= MaxButtonsTime
    /\ clock' = ticks_add(clock, d)
    /\ Keyed([ret EXCEPT !.elapsed = @ + d], "tick", 0, "none", None)

NextButtons == KeyPressed \/ KeyReleased \/ ButtonsTick

SpecButtons == InitButtons /\ [][NextButtons]_vars

(* C40: Buttons.run emits a KeyEvent only on the release of a key that has *)
(* a recorded press: a press event and a release with no recorded press    *)
(* emit nothing; every emitted KeyEvent clears that key's pressed_at, is   *)
(* 'long' iff release time minus press time >= the long-press threshold,   *)
(* and its held set is exactly the set of other keys pressed and not yet   *)
(* released.                                                               *)
C40_KeyEvents ==
  [][last'.op = "event" =>
       LET key == last'.pulled
           event == last'.quantity
       IN /\ event.some <=>
               (last'.verb = "release" /\ ret.states[key].pressed_at.some)
          /\ ret.states[key].pressed_at.some <=> key \in ret.down
          /\ event.some =>
               /\ event.v.key = key
               /\ ret'.states[key].pressed_at = None
               /\ event.v.type \in {"long", "short"}
               /\ event.v.type = "long" <=>
                    ret.elapsed - ret.since[key] >= buttons_long_duration_ms
               /\ event.v.held = ret.down \ {key}]_vars

C40_Witness ==
  /\ last.op = "event" /\ last.verb = "release" /\ last.quantity.some
  /\ last.quantity.v.type = "long"
  /\ last.quantity.v.held # {}
  /\ ret.elapsed - ret.since[last.pulled] = buttons_long_duration_ms
  /\ clock < 1000

C40_WitnessAnomalous ==
  /\ last.op = "event" /\ last.verb = "release" /\ ~last.quantity.some
  /\ ret.down # {}

====
